---- MODULE Spec2Model ----
(***************************************************************************)
(* Matching and ranking engine of RfqMatchmaker.                           *)
(*                                                                         *)
(* Two handlers are modelled, both named match_suppliers_for_rfq in the    *)
(* source: the AI-hardware one (services/ai_hardware_matching.py, prefix   *)
(* aihw_) and the laptop/monitor one with the semantic blend               *)
(* (services/supplier_matching.py, prefix sm_).                            *)
(*                                                                         *)
(* Numbers.  Python floats are modelled by exact rationals.  A sub-score   *)
(* the source keeps in [0,1] is held in percent (0.8 is 80).  A match      *)
(* score is a numerator over a denominator that is the same for every      *)
(* match of one call: the weight total of the RFQ for the AI-hardware      *)
(* scorer, SmDen for the laptop/monitor scorer.  Float rounding is outside *)
(* the model.                                                              *)
(***************************************************************************)
EXTENDS Integers, Sequences, FiniteSets, TLC

VARIABLES
    products,     \* catalogue rows, in the order the storage returns them
    rfq,          \* the stored RFQ: requirement payload and buyer
    collab,       \* answers of the collaborators during a call
    proposals,    \* proposals written to storage (product ids, in order)
    matches,      \* list returned by the last match_suppliers_for_rfq
    prevMatches,  \* list returned by the call before that one
    status,       \* "idle" before any call, then "returned"
    handler,      \* which handler served the last call: "none", "aihw", "sm"
    calls,        \* number of calls served
    call          \* last call of a pure function: [fn, args, ret]

vars == <<products, rfq, collab, proposals, matches, prevMatches, status,
          handler, calls, call>>

(***************************************************************************)
(* Bounds                                                                  *)
(***************************************************************************)
MaxProducts == 3
MaxCalls == 2

NoVal == 0 - 1     \* stands for a key that is absent from a dict

NoCall == [fn |-> "none", args |-> <<>>, ret |-> <<>>]

(***************************************************************************)
(* Generic helpers                                                         *)
(***************************************************************************)
Abs(x) == IF x < 0 THEN -x ELSE x

Min2(a, b) == IF a <= b THEN a ELSE b

Max2(a, b) == IF a >= b THEN a ELSE b

RECURSIVE SumSeq(_)
SumSeq(s) == IF s = <<>> THEN 0 ELSE Head(s) + SumSeq(Tail(s))

RECURSIVE Concat(_)
Concat(ss) == IF ss = <<>> THEN <<>> ELSE Head(ss) \o Concat(Tail(ss))

PrefixUncapped(s, n) == s

Prefix(s, n) == SubSeq(s, 1, Min2(n, Len(s)))

InSeq(x, s) == \E i \in 1..Len(s) : s[i] = x

(* list.sort(key=..., reverse=True) and list.sort(key=...): both stable.   *)
(* The list is a sequence of records [k |-> sort key, v |-> element].      *)
RECURSIVE InsertDesc(_, _)
InsertDesc(x, s) ==
    IF s = <<>> THEN <<x>>
    ELSE IF Head(s).k >= x.k THEN <<Head(s)>> \o InsertDesc(x, Tail(s))
    ELSE <<x>> \o s

RECURSIVE SortDesc(_)
SortDesc(s) ==
    IF s = <<>> THEN <<>>
    ELSE InsertDesc(s[Len(s)], SortDesc(SubSeq(s, 1, Len(s) - 1)))

RECURSIVE InsertAsc(_, _)
InsertAsc(x, s) ==
    IF s = <<>> THEN <<x>>
    ELSE IF Head(s).k <= x.k THEN <<Head(s)>> \o InsertAsc(x, Tail(s))
    ELSE <<x>> \o s

RECURSIVE SortAsc(_)
SortAsc(s) ==
    IF s = <<>> THEN <<>>
    ELSE InsertAsc(s[Len(s)], SortAsc(SubSeq(s, 1, Len(s) - 1)))

Values(s) == [i \in 1..Len(s) |-> s[i].v]

(***************************************************************************)
(* Strings are sequences of one-character strings.                         *)
(***************************************************************************)
Digits == {"0", "1", "2", "3", "4", "5", "6", "7", "8", "9"}

DigitVal(c) ==
    CASE c = "0" -> 0 [] c = "1" -> 1 [] c = "2" -> 2 [] c = "3" -> 3
      [] c = "4" -> 4 [] c = "5" -> 5 [] c = "6" -> 6 [] c = "7" -> 7
      [] c = "8" -> 8 [] c = "9" -> 9

(* int() of a run of digits *)
RECURSIVE ToInt(_)
ToInt(ds) ==
    IF ds = <<>> THEN 0
    ELSE 10 * ToInt(SubSeq(ds, 1, Len(ds) - 1)) + DigitVal(ds[Len(ds)])

(* length of the maximal run of digits of s that starts at index i *)
RECURSIVE DigitRun(_, _)
DigitRun(s, i) ==
    IF i > Len(s) \/ s[i] \notin Digits THEN 0 ELSE 1 + DigitRun(s, i + 1)

(* re.findall(r'\d+', s), from index i on: the maximal digit runs as ints  *)
RECURSIVE FindAllNumbers(_, _)
FindAllNumbers(s, i) ==
    IF i > Len(s) THEN <<>>
    ELSE IF s[i] \in Digits
         THEN LET n == DigitRun(s, i)
              IN  <<ToInt(SubSeq(s, i, i + n - 1))>> \o FindAllNumbers(s, i + n)
         ELSE FindAllNumbers(s, i + 1)

(***************************************************************************)
(* parse_delivery_time, identical in both services.  The result is in      *)
(* half days, so that the average of a range stays an integer.             *)
(***************************************************************************)
parse_delivery_time_first_number(delivery_time) ==
    IF delivery_time = <<>> THEN 60
    ELSE LET numbers == FindAllNumbers(delivery_time, 1)
         IN  IF numbers = <<>> THEN 60 ELSE 2 * numbers[1]

parse_delivery_time(delivery_time) ==
    IF delivery_time = <<>> THEN 60
    ELSE LET numbers == FindAllNumbers(delivery_time, 1)
         IN  IF numbers = <<>> THEN 60
             ELSE IF Len(numbers) >= 2 THEN numbers[1] + numbers[2]
             ELSE 2 * numbers[1]

(***************************************************************************)
(* Compliance gate                                                         *)
(*                                                                         *)
(* A product dict is a record with empty (the dict has no key at all),     *)
(* restrictedCountries and exportRestrictions (complianceInfo), memCap and *)
(* memBw (memorySpecs capacity, bandwidth), fp32 and int8 (computeSpecs);  *)
(* NoVal stands for an absent key.  A supplier dict is a record with empty *)
(* and country.                                                            *)
(***************************************************************************)
GPU_RESTRICTION_memory_capacity == 32
GPU_RESTRICTION_memory_bandwidth == 800
GPU_RESTRICTION_fp32_performance == 50
GPU_RESTRICTION_int8_performance == 400

(* dict.get(key, 0) *)
GetOr0(v) == IF v = NoVal THEN 0 ELSE v

SensitiveCountries ==
    {"China", "Russia", "Iran", "Belarus", "North Korea", "Syria",
     "Venezuela", "Cuba", "Myanmar", "Afghanistan"}

HighPerfBlockedCountries ==
    {"China", "Russia", "Iran", "Belarus", "North Korea", "Syria"}

HighMemoryCountries == {"China", "Russia", "Iran", "North Korea", "Syria"}

is_high_performance(product_specs) ==
    \/ GetOr0(product_specs.memCap) >= GPU_RESTRICTION_memory_capacity
    \/ GetOr0(product_specs.memBw) >= GPU_RESTRICTION_memory_bandwidth
    \/ GetOr0(product_specs.fp32) >= GPU_RESTRICTION_fp32_performance
    \/ GetOr0(product_specs.int8) >= GPU_RESTRICTION_int8_performance

check_product_shipping_restrictions(product_specs, destination_country) ==
    LET listed   == destination_country \in product_specs.restrictedCountries
        r1       == IF listed THEN <<"manufacturer_restriction">> ELSE <<>>
        licence1 == product_specs.exportRestrictions
                    /\ destination_country \in SensitiveCountries
        r2       == IF licence1 /\ r1 = <<>>
                    THEN <<"export_license_required">> ELSE r1
        high     == is_high_performance(product_specs)
        blocked  == high /\ destination_country \in HighPerfBlockedCountries
    IN  [can_ship         |-> ~listed /\ ~blocked,
         restrictions     |-> IF blocked
                              THEN Append(r2, "high_performance_blocked")
                              ELSE r2,
         requires_license |-> licence1 \/ high]

check_compliance_match(buyer_country, product, supplier) ==
    IF buyer_country = "" \/ product.empty \/ supplier.empty
    THEN [score |-> 50, notes |-> <<"insufficient_data">>]
    ELSE IF buyer_country \in product.restrictedCountries
    THEN [score |-> 0, notes |-> <<"export_restricted", buyer_country>>]
    ELSE IF buyer_country = "Russia" /\ supplier.country = "United States"
    THEN [score |-> 10, notes |-> <<"us_supplier_russian_buyer">>]
    ELSE IF buyer_country = "China" /\ supplier.country = "United States"
    THEN [score |-> 30, notes |-> <<"us_export_to_china">>]
    ELSE IF buyer_country = "Iran"
            /\ supplier.country \in {"United States", "European Union"}
    THEN [score |-> 0, notes |-> <<"exports_prohibited", supplier.country>>]
    ELSE IF product.memCap # NoVal /\ product.memCap >= 32
            /\ buyer_country \in HighMemoryCountries
    THEN [score |-> 20, notes |-> <<"high_memory_licensing", buyer_country>>]
    ELSE LET shipping_restrictions ==
                 check_product_shipping_restrictions(product, buyer_country)
         IN  IF ~shipping_restrictions.can_ship
             THEN [score |-> 0, notes |-> shipping_restrictions.restrictions]
             ELSE IF shipping_restrictions.requires_license
             THEN [score |-> 40, notes |-> <<"export_license", buyer_country>>]
             ELSE IF supplier.country = buyer_country
             THEN [score |-> 100, notes |-> <<"local_supplier">>]
             ELSE [score |-> 80, notes |-> <<"standard_international">>]

(***************************************************************************)
(* AI-hardware spec comparators.  The requirement block (aiHardware merged *)
(* with gpuRequirements) is a record with empty, minComputePower,          *)
(* minMemory, powerConstraints (NoVal when the key is absent),             *)
(* minTensorCores, hasFrameworks and frameworks (a set of lower-case       *)
(* names).  The requirements enumerated here carry none of minCudaCores,   *)
(* minInt8Performance, minFp16Performance, minMemoryBandwidth and          *)
(* memoryType, so the scores of those metrics keep their initial 0.5 and   *)
(* are left out of the weighted average by the source.  A product dict     *)
(* adds fp32, tensorCores, memCap, tdp and supportedFrameworks to the      *)
(* fields of the compliance gate.                                          *)
(***************************************************************************)
fp32_score(required, product) ==
    IF product.fp32 = NoVal \/ required.minComputePower = NoVal THEN 50
    ELSE LET req_fp32  == required.minComputePower
             prod_fp32 == product.fp32
         IN  IF 2 * prod_fp32 >= 3 * req_fp32 THEN 100
             ELSE IF prod_fp32 >= req_fp32 THEN 90
             ELSE IF 5 * prod_fp32 >= 4 * req_fp32 THEN 70
             ELSE IF 5 * prod_fp32 >= 3 * req_fp32 THEN 50
             ELSE 30

(* max(0.5, 1.0 - (req - prod) / req) as a fraction of percents, 1.0 when  *)
(* the requirement is met                                                  *)
tensor_cores_score(required, product) ==
    IF product.tensorCores = NoVal \/ required.minTensorCores = NoVal
    THEN [num |-> 50, den |-> 1]
    ELSE IF product.tensorCores >= required.minTensorCores
    THEN [num |-> 100, den |-> 1]
    ELSE IF 2 * product.tensorCores <= required.minTensorCores
    THEN [num |-> 50, den |-> 1]
    ELSE [num |-> 100 * product.tensorCores, den |-> required.minTensorCores]

(* the weighted average of the scores that differ from 0.5: fp32 with      *)
(* weight 0.4 and tensor cores with weight 0.15, in percent as num / den   *)
weighted_performance(fp32, tensor) ==
    LET fp32_weight   == IF fp32 # 50 THEN 40 ELSE 0
        tensor_weight == IF tensor.num # 50 * tensor.den THEN 15 ELSE 0
    IN  IF fp32_weight + tensor_weight = 0 THEN [num |-> 50, den |-> 1]
        ELSE [num |-> fp32 * fp32_weight * tensor.den + tensor.num * tensor_weight,
              den |-> (fp32_weight + tensor_weight) * tensor.den]

compare_compute_performance_ratio(required, product) ==
    IF required.empty \/ product.empty THEN [num |-> 50, den |-> 1]
    ELSE IF product.fp32 = NoVal /\ product.tensorCores = NoVal
    THEN [num |-> 50, den |-> 1]
    ELSE weighted_performance(fp32_score(required, product),
                              tensor_cores_score(required, product))

(* in whole percent, which is exact for the products without tensorCores   *)
compare_compute_performance(required, product) ==
    compare_compute_performance_ratio(required, product).num
        \div compare_compute_performance_ratio(required, product).den

compare_memory_specs_penalising(required, product) ==
    IF required.empty \/ product.empty THEN 50
    ELSE IF product.memCap = NoVal /\ product.memBw = NoVal THEN 0
    ELSE IF product.memCap = NoVal \/ required.minMemory = NoVal THEN 50
    ELSE LET req_capacity  == required.minMemory
             prod_capacity == product.memCap
         IN  IF 2 * prod_capacity >= 3 * req_capacity THEN 100
             ELSE IF prod_capacity >= req_capacity THEN 90
             ELSE IF 5 * prod_capacity >= 4 * req_capacity THEN 70
             ELSE IF 5 * prod_capacity >= 3 * req_capacity THEN 50
             ELSE 30

compare_memory_specs(required, product) ==
    IF required.empty \/ product.empty THEN 50
    ELSE IF product.memCap = NoVal /\ product.memBw = NoVal THEN 50
    ELSE IF product.memCap = NoVal \/ required.minMemory = NoVal THEN 50
    ELSE LET req_capacity  == required.minMemory
             prod_capacity == product.memCap
         IN  IF 2 * prod_capacity >= 3 * req_capacity THEN 100
             ELSE IF prod_capacity >= req_capacity THEN 90
             ELSE IF 5 * prod_capacity >= 4 * req_capacity THEN 70
             ELSE IF 5 * prod_capacity >= 3 * req_capacity THEN 50
             ELSE 30

(* a tdp that float() rejects, such as "250W" *)
Unparseable == -2

(* float(power_specs["tdp"]) raises ValueError *)
power_specs_raise(required, product) ==
    /\ ~required.empty
    /\ ~product.empty
    /\ product.tdp = Unparseable
    /\ required.powerConstraints # NoVal

compare_power_specs(required, product) ==
    IF required.empty \/ product.empty THEN 50
    ELSE IF product.tdp = NoVal \/ required.powerConstraints = NoVal THEN 50
    ELSE LET max_tdp     == required.powerConstraints
             product_tdp == product.tdp
         IN  IF 5 * product_tdp <= 4 * max_tdp THEN 100
             ELSE IF product_tdp <= max_tdp THEN 90
             ELSE IF 10 * product_tdp <= 11 * max_tdp THEN 70
             ELSE IF 5 * product_tdp <= 6 * max_tdp THEN 50
             ELSE 30

compare_framework_support(required, product) ==
    IF required.empty \/ product.empty THEN 50
    ELSE IF product.supportedFrameworks = {} \/ ~required.hasFrameworks
    THEN 50
    ELSE IF required.frameworks = {} THEN 50
    ELSE LET supported_count ==
                 Cardinality(required.frameworks \cap product.supportedFrameworks)
             n == Cardinality(required.frameworks)
         IN  IF supported_count = n THEN 100
             ELSE IF 5 * supported_count >= 4 * n THEN 90
             ELSE IF 5 * supported_count >= 3 * n THEN 80
             ELSE IF 5 * supported_count >= 2 * n THEN 70
             ELSE IF supported_count > 0 THEN 60
             ELSE 40

(***************************************************************************)
(* calculate_match_score of ai_hardware_matching.py.                       *)
(* A supplier dict has leadTime (0 when absent or falsy) and deliveryTime  *)
(* (a string, empty when absent).  criteria maps a criterion name to its   *)
(* weight, NoVal when the criterion carries none.                          *)
(* The result has raised = TRUE where the source raises: requirements that *)
(* are not a dict have no get(), and a weight total of 0 divides by zero.  *)
(***************************************************************************)
aihw_price_score(product) ==
    IF product.price = NoVal THEN 50
    ELSE IF product.price < 1000 THEN 90
    ELSE IF product.price < 5000 THEN 80
    ELSE IF product.price < 10000 THEN 70
    ELSE IF product.price < 20000 THEN 60
    ELSE 50

(* the bands of a lead time given in half days *)
aihw_lead_time_band(half_days) ==
    IF half_days <= 14 THEN 100
    ELSE IF half_days <= 28 THEN 90
    ELSE IF half_days <= 60 THEN 80
    ELSE IF half_days <= 120 THEN 60
    ELSE 40

aihw_availability_score(product, supplier) ==
    IF supplier.leadTime # 0 THEN aihw_lead_time_band(2 * supplier.leadTime)
    ELSE IF supplier.deliveryTime # <<>>
    THEN aihw_lead_time_band(parse_delivery_time(supplier.deliveryTime))
    ELSE IF product.inStock THEN 80 ELSE 40

WeightOr(w, default) == IF w = NoVal THEN default ELSE w

aihw_weights(criteria) ==
    [price         |-> WeightOr(criteria.price, 25),
     performance   |-> WeightOr(criteria.performance, 40),
     compatibility |-> WeightOr(criteria.compatibility, 15),
     availability  |-> WeightOr(criteria.availability, 10),
     compliance    |-> WeightOr(criteria.compliance, 10)]

aihw_total_weight(criteria) ==
    LET w == aihw_weights(criteria)
    IN  w.price + w.performance + w.compatibility + w.availability + w.compliance

AihwRaised == [raised |-> TRUE]

(* the weighted overall score and the breakdown; compatibility10 is        *)
(* memory * 0.4 + framework * 0.3 + power * 0.3 in tenths of a percent     *)
aihw_weighted_score(price_score, performance_score, compatibility10, availability_score, compliance, w, total_weight) ==
    IF total_weight = 0 THEN AihwRaised
    ELSE [raised  |-> FALSE,
          \* overall score in points = num / den
          num     |-> 10 * price_score * w.price
                      + 10 * performance_score * w.performance
                      + compatibility10 * w.compatibility
                      + 10 * availability_score * w.availability
                      + 10 * compliance.score * w.compliance,
          den     |-> 10 * total_weight,
          \* the weights applied, each over wden (each weight / 100 is
          \* divided by total_weight / 100)
          applied |-> w,
          wden    |-> total_weight,
          details |-> [price         |-> 10 * price_score,
                       performance   |-> 10 * performance_score,
                       compatibility |-> compatibility10,
                       availability  |-> 10 * availability_score,
                       compliance    |-> 10 * compliance.score],
          compliance_notes |-> compliance.notes]

aihw_calculate_match_score(product, supplier, requirements, buyer_country) ==
    IF requirements.shape # "dict" THEN AihwRaised
    ELSE IF power_specs_raise(requirements.hw, product) THEN AihwRaised
    ELSE aihw_weighted_score(
             aihw_price_score(product),
             compare_compute_performance(requirements.hw, product),
             compare_memory_specs(requirements.hw, product) * 4
                 + compare_framework_support(requirements.hw, product) * 3
                 + compare_power_specs(requirements.hw, product) * 3,
             aihw_availability_score(product, supplier),
             check_compliance_match(buyer_country, product, supplier),
             aihw_weights(requirements.criteria),
             aihw_total_weight(requirements.criteria))

(***************************************************************************)
(* String helpers of the laptop/monitor comparators                        *)
(***************************************************************************)
LowerChar(c) ==
    CASE c = "A" -> "a" [] c = "B" -> "b" [] c = "C" -> "c" [] c = "D" -> "d"
      [] c = "E" -> "e" [] c = "F" -> "f" [] c = "G" -> "g" [] c = "H" -> "h"
      [] c = "I" -> "i" [] c = "J" -> "j" [] c = "K" -> "k" [] c = "L" -> "l"
      [] c = "M" -> "m" [] c = "N" -> "n" [] c = "O" -> "o" [] c = "P" -> "p"
      [] c = "Q" -> "q" [] c = "R" -> "r" [] c = "S" -> "s" [] c = "T" -> "t"
      [] c = "U" -> "u" [] c = "V" -> "v" [] c = "W" -> "w" [] c = "X" -> "x"
      [] c = "Y" -> "y" [] c = "Z" -> "z" [] OTHER -> c

Lower(s) == [i \in 1..Len(s) |-> LowerChar(s[i])]

(* the literal lit occurs in s at index i *)
LitAt(s, i, lit) ==
    /\ i >= 1
    /\ i + Len(lit) - 1 <= Len(s)
    /\ \A j \in 1..Len(lit) : s[i + j - 1] = lit[j]

(* lit in s *)
Contains(s, lit) == \E i \in 1..Len(s) : LitAt(s, i, lit)

(* length of the run of white space of s that starts at index i *)
RECURSIVE WsRun(_, _)
WsRun(s, i) ==
    IF i > Len(s) \/ s[i] # " " THEN 0 ELSE 1 + WsRun(s, i + 1)

SetMin(S) == CHOOSE x \in S : \A y \in S : x <= y

NumberAt(s, i) == ToInt(SubSeq(s, i, i + DigitRun(s, i) - 1))

(* re.search(lit + r'\s*(\d+)', s): group 1 as an int, NoVal without match *)
SearchLitWsNumber(s, lit) ==
    LET at(i) == i + Len(lit) + WsRun(s, i + Len(lit))
        hits  == {i \in 1..Len(s) : LitAt(s, i, lit) /\ DigitRun(s, at(i)) > 0}
    IN  IF hits = {} THEN NoVal ELSE NumberAt(s, at(SetMin(hits)))

(* re.search(r'(\d+)\s*' + (lit1|lit2), s): group 1, NoVal without match    *)
SearchNumberWsLit(s, lits) ==
    LET after(i) == i + DigitRun(s, i) + WsRun(s, i + DigitRun(s, i))
        hits == {i \in 1..Len(s) :
                    /\ s[i] \in Digits
                    /\ \E lit \in lits : LitAt(s, after(i), lit)}
    IN  IF hits = {} THEN NoVal ELSE NumberAt(s, SetMin(hits))

(* re.search(r'i(\d+)', s) *)
search_i_series(s) ==
    LET hits == {i \in 1..Len(s) : s[i] = "i" /\ DigitRun(s, i + 1) > 0}
    IN  IF hits = {} THEN NoVal ELSE NumberAt(s, SetMin(hits) + 1)

(* re.search(r'ddr(\d)', s) *)
search_ddr(s) ==
    LET lit  == <<"d", "d", "r">>
        hits == {i \in 1..Len(s) : LitAt(s, i, lit) /\ DigitRun(s, i + 3) > 0}
    IN  IF hits = {} THEN NoVal ELSE DigitVal(s[SetMin(hits) + 3])

(***************************************************************************)
(* Laptop/monitor spec comparators (percent).  <<>> is None or "".         *)
(***************************************************************************)
compare_processors(requirement, spec) ==
    IF requirement = <<>> \/ spec = <<>> THEN 50
    ELSE
    LET req_lower  == Lower(requirement)
        spec_lower == Lower(spec)
        req_i      == search_i_series(req_lower)
        spec_i     == search_i_series(spec_lower)
        req_r      == SearchLitWsNumber(req_lower, <<"r", "y", "z", "e", "n">>)
        spec_r     == SearchLitWsNumber(spec_lower, <<"r", "y", "z", "e", "n">>)
    IN  IF req_lower = spec_lower THEN 100
        ELSE IF req_i # NoVal /\ spec_i # NoVal
        THEN IF spec_i > req_i THEN 100
             ELSE IF spec_i = req_i THEN 90
             ELSE Max2(50, 100 - (req_i - spec_i) * 20)
        ELSE IF req_r # NoVal /\ spec_r # NoVal
        THEN IF spec_r > req_r THEN 100
             ELSE IF spec_r = req_r THEN 90
             ELSE Max2(50, 100 - (req_r - spec_r) * 20)
        ELSE IF \/ Contains(spec_lower, <<"i", "7">>)
                \/ Contains(spec_lower, <<"i", "9">>)
                \/ Contains(spec_lower, <<"r", "y", "z", "e", "n", " ", "7">>)
                \/ Contains(spec_lower, <<"r", "y", "z", "e", "n", " ", "9">>)
        THEN 80
        ELSE IF \/ Contains(spec_lower, <<"i", "5">>)
                \/ Contains(spec_lower, <<"r", "y", "z", "e", "n", " ", "5">>)
        THEN 70
        ELSE 60

compare_memory(requirement, spec) ==
    IF requirement = <<>> \/ spec = <<>> THEN 50
    ELSE
    LET req_gb   == SearchNumberWsLit(Lower(requirement), {<<"g", "b">>})
        spec_gb  == SearchNumberWsLit(Lower(spec), {<<"g", "b">>})
        req_ver  == search_ddr(Lower(requirement))
        spec_ver == search_ddr(Lower(spec))
    IN  IF req_gb # NoVal /\ spec_gb # NoVal
        THEN IF spec_gb >= req_gb THEN 100
             \* max(0.5, 1.0 - ((req - spec) / 4) * 0.2)
             ELSE Max2(50, 100 - (req_gb - spec_gb) * 5)
        ELSE IF req_ver # NoVal /\ spec_ver # NoVal
        THEN IF spec_ver > req_ver THEN 90
             ELSE IF spec_ver = req_ver THEN 80
             ELSE Max2(50, 80 - (req_ver - spec_ver) * 10)
        ELSE 60

compare_warranty(requirement, spec) ==
    IF requirement = <<>> \/ spec = <<>> THEN 50
    ELSE
    LET year_lits   == {<<"y", "e", "a", "r">>, <<"y", "r">>}
        req_period  == SearchNumberWsLit(Lower(requirement), year_lits)
        spec_period == SearchNumberWsLit(Lower(spec), year_lits)
        spec_lower  == Lower(spec)
    IN  IF req_period # NoVal /\ spec_period # NoVal
        THEN IF spec_period >= req_period THEN 100
             ELSE Max2(50, 100 - (req_period - spec_period) * 25)
        ELSE IF \/ Contains(spec_lower, <<"n", "e", "x", "t", " ", "d", "a", "y">>)
                \/ Contains(spec_lower, <<"n", "b", "d">>)
        THEN 100
        ELSE IF Contains(spec_lower, <<"o", "n", "s", "i", "t", "e">>) THEN 90
        ELSE 60

(* Sizes are whole numbers of TB or GB; the size deduction is exact for    *)
(* sizes that differ by a multiple of 128 GB, as the enumerated ones do.   *)
compare_storage(requirement, spec) ==
    IF requirement = <<>> \/ spec = <<>> THEN 50
    ELSE
    LET req_lower  == Lower(requirement)
        spec_lower == Lower(spec)
        req_tb     == SearchNumberWsLit(req_lower, {<<"t", "b">>})
        spec_tb    == SearchNumberWsLit(spec_lower, {<<"t", "b">>})
        req_gb     == SearchNumberWsLit(req_lower, {<<"g", "b">>})
        spec_gb    == SearchNumberWsLit(spec_lower, {<<"g", "b">>})
        req_size_gb  == IF req_tb # NoVal THEN req_tb * 1024
                        ELSE IF req_gb # NoVal THEN req_gb ELSE 0
        spec_size_gb == IF spec_tb # NoVal THEN spec_tb * 1024
                        ELSE IF spec_gb # NoVal THEN spec_gb ELSE 0
        spec_type_score == IF Contains(spec_lower, <<"n", "v", "m", "e">>) THEN 100
                           ELSE IF Contains(spec_lower, <<"s", "s", "d">>) THEN 80
                           ELSE 50
        size_score == IF req_size_gb > 0 /\ spec_size_gb > 0
                      THEN IF spec_size_gb >= req_size_gb THEN 100
                           \* max(0.5, 1.0 - ((req - spec) / 256) * 0.1)
                           ELSE Max2(50, 100 - ((req_size_gb - spec_size_gb) * 10) \div 256)
                      ELSE 70
    IN  (size_score * 70 + spec_type_score * 30) \div 100

(* res_scores of compare_display, in the order of the dict *)
ResKeys ==
    << <<"h", "d">>, <<"1", "3", "6", "6">>, <<"7", "6", "8">>,
       <<"f", "h", "d">>, <<"1", "0", "8", "0">>, <<"1", "9", "2", "0">>,
       <<"q", "h", "d">>, <<"1", "4", "4", "0">>, <<"2", "5", "6", "0">>,
       <<"4", "k">>, <<"u", "h", "d">>, <<"2", "1", "6", "0">>,
       <<"3", "8", "4", "0">> >>

ResScores == <<60, 60, 60, 80, 80, 80, 90, 90, 90, 100, 100, 100, 100>>

(* the loop over res_scores from key k on, res_score being the value so far *)
RECURSIVE res_score_loop(_, _, _, _)
res_score_loop(req_lower, spec_lower, k, res_score) ==
    IF k > Len(ResKeys) THEN res_score
    ELSE IF Contains(req_lower, ResKeys[k]) /\ Contains(spec_lower, ResKeys[k])
    THEN ResScores[k]
    ELSE IF Contains(spec_lower, ResKeys[k])
    THEN LET lower == {j \in 1..Len(ResKeys) :
                          /\ Contains(req_lower, ResKeys[j])
                          /\ ResScores[k] > ResScores[j]}
         IN  res_score_loop(req_lower, spec_lower, k + 1,
                            IF lower = {} THEN res_score
                            ELSE Min2(100, ResScores[SetMin(lower)] + 10))
    ELSE res_score_loop(req_lower, spec_lower, k + 1, res_score)

(* The size pattern matches the first number of the text; sizes are whole  *)
(* inches here.                                                            *)
compare_display(requirement, spec) ==
    IF requirement = <<>> \/ spec = <<>> THEN 50
    ELSE
    LET req_lower  == Lower(requirement)
        spec_lower == Lower(spec)
        req_size   == FindAllNumbers(req_lower, 1)
        spec_size  == FindAllNumbers(spec_lower, 1)
        diff       == IF spec_size[1] >= req_size[1] THEN spec_size[1] - req_size[1]
                      ELSE req_size[1] - spec_size[1]
        size_score == IF req_size # <<>> /\ spec_size # <<>>
                      THEN IF diff <= 1 THEN 100 ELSE Max2(50, 100 - diff * 10)
                      ELSE 70
    IN  (size_score * 40 + res_score_loop(req_lower, spec_lower, 1, 70) * 60) \div 100

(***************************************************************************)
(* calculate_match_score of supplier_matching.py.                          *)
(* requirements.laptops is a record with present, quantity, processor,     *)
(* memory, storage, display and warranty (<<>> for None).  A product row   *)
(* carries specKeys (the keys of its specifications), the values           *)
(* processor, memory, storage and display, and warranty; the RFQs          *)
(* enumerated here have no monitors block, so the monitor factors are      *)
(* never appended by the source.  The score in points is num / SmDen; the  *)
(* breakdown is in sixtieths of a point (SmDetailDen), which keeps the     *)
(* mean of up to five factors exact.                                       *)
(***************************************************************************)
SmDen == 60000
SmDetailDen == 60

LowerName(c) ==
    CASE c = "GPU" -> "gpu" [] c = "TPU" -> "tpu" [] c = "Laptops" -> "laptops"
      [] c = "AI Accelerator" -> "ai accelerator" [] c = "FPGA" -> "fpga"
      [] c = "Monitors" -> "monitors" [] c = "Tablets" -> "tablets"
      [] OTHER -> c

sm_price_score(product) ==
    IF product.price <= 500 THEN 90
    ELSE IF product.price <= 1000 THEN 75
    ELSE IF product.price <= 1500 THEN 60
    ELSE 40

sm_delivery_score(supplier) ==
    LET delivery_days2 == parse_delivery_time(supplier.deliveryTime)
    IN  IF delivery_days2 <= 14 THEN 100
        ELSE IF delivery_days2 <= 28 THEN 90
        ELSE IF delivery_days2 <= 42 THEN 80
        ELSE IF delivery_days2 <= 60 THEN 70
        ELSE IF delivery_days2 <= 90 THEN 60
        ELSE 50

sm_quality_factors(category_req, product) ==
    (IF "processor" \in product.specKeys
     THEN <<compare_processors(category_req.processor, product.processor)>>
     ELSE <<>>)
    \o (IF "memory" \in product.specKeys
        THEN <<compare_memory(category_req.memory, product.memory)>>
        ELSE <<>>)
    \o (IF "storage" \in product.specKeys
        THEN <<compare_storage(category_req.storage, product.storage)>>
        ELSE <<>>)
    \o (IF "display" \in product.specKeys
        THEN <<compare_display(category_req.display, product.display)>>
        ELSE <<>>)
    \o <<compare_warranty(category_req.warranty, product.warranty)>>

(* sum / len of the factors, in sixths of a point *)
sm_mean6(quality_factors) ==
    IF quality_factors = <<>> THEN 50 * SmDetailDen
    ELSE (SumSeq(quality_factors) * SmDetailDen) \div Len(quality_factors)

sm_quality_score6(category_req, product) ==
    sm_mean6(sm_quality_factors(category_req, product))

sm_weights(criteria) ==
    [price    |-> WeightOr(criteria.price, 50),
     quality  |-> WeightOr(criteria.quality, 30),
     delivery |-> WeightOr(criteria.delivery, 20)]

SmDefaultScore ==
    [num     |-> 50 * SmDen,
     details |-> [price    |-> 50 * SmDetailDen,
                  quality  |-> 50 * SmDetailDen,
                  delivery |-> 50 * SmDetailDen],
     applied |-> [price |-> 0, quality |-> 0, delivery |-> 0],
     wden |-> 100,
     weighted |-> FALSE]

(* the weighted total and the breakdown of the three sub-scores *)
sm_weighted_score(w, price_score, quality_score6, delivery_score) ==
    [\* price * pw / 100 + quality * qw / 100 + delivery * dw / 100
     num     |-> 10 * (SmDetailDen * price_score * w.price
                       + quality_score6 * w.quality
                       + SmDetailDen * delivery_score * w.delivery),
     details |-> [price    |-> SmDetailDen * price_score,
                  quality  |-> quality_score6,
                  delivery |-> SmDetailDen * delivery_score],
     \* the weights applied, each over wden (weight / 100)
     applied |-> w,
     wden |-> 100,
     weighted |-> TRUE]

sm_calculate_match_score(product, supplier, requirements, category) ==
    IF ~(LowerName(category) = "laptops" /\ requirements.laptops.present)
    THEN SmDefaultScore
    ELSE sm_weighted_score(sm_weights(requirements.criteria),
                           sm_price_score(product),
                           sm_quality_score6(requirements.laptops, product),
                           sm_delivery_score(supplier))

sm_get_quantity_for_category(requirements, category) ==
    IF LowerName(category) = "laptops" /\ requirements.laptops.present
    THEN requirements.laptops.quantity
    ELSE 1

(***************************************************************************)
(* Storage reads.  rows is the products table in storage order; a row is   *)
(* a product record with id, category, price and supplierId.  The category *)
(* filter is case-insensitive containment (ilike '%category%'); among the  *)
(* category names enumerated here no name contains another, so containment *)
(* is equality of the lower-cased names.                                   *)
(***************************************************************************)
SupplierTable ==
    [i \in {1, 2} |->
        IF i = 1
        THEN [empty |-> FALSE, id |-> 1, country |-> "United States",
              leadTime |-> 0,
              deliveryTime |-> <<"1", "0", "-", "1", "5", " ", "d", "a", "y", "s">>]
        ELSE [empty |-> FALSE, id |-> 2, country |-> "Germany",
              leadTime |-> 0,
              deliveryTime |-> <<"3", "0", " ", "d", "a", "y", "s">>]]

NoSupplier == [empty |-> TRUE, id |-> 0, country |-> "", leadTime |-> 0,
               deliveryTime |-> <<>>]

get_supplier_by_id(id) ==
    IF id \in DOMAIN SupplierTable THEN SupplierTable[id] ELSE NoSupplier

CategoryMatches(row, category) == LowerName(row.category) = LowerName(category)

get_products_by_category(rows, category) ==
    SelectSeq(rows, LAMBDA row : CategoryMatches(row, category))

get_product_by_id(rows, id) ==
    LET hits == {i \in 1..Len(rows) : rows[i].id = id}
    IN  IF hits = {} THEN <<>> ELSE <<rows[SetMin(hits)]>>

(***************************************************************************)
(* find_alternative_products                                               *)
(***************************************************************************)
NoAlternatives ==
    [attached |-> FALSE, similarPerformance |-> <<>>, lowerCost |-> <<>>,
     fasterDelivery |-> <<>>, betterCompliance |-> <<>>]

(* [x for x in s if keep] as records [k, v], then sorted, first three ids  *)
RECURSIVE Collect(_, _, _)
Collect(s, keep, key) ==
    IF s = <<>> THEN <<>>
    ELSE (IF keep[Head(s)] THEN <<[k |-> key[Head(s)], v |-> Head(s)]>> ELSE <<>>)
         \o Collect(Tail(s), keep, key)

find_alternative_products(product, all_products, supplier_matches) ==
    LET cand == {i \in 1..Len(all_products) :
                    /\ all_products[i].category = product.category
                    /\ all_products[i].id # product.id}
        idxs == [i \in 1..Len(all_products) |-> i]
        fp32_perf == GetOr0(product.fp32)
        diff(i)   == Abs(GetOr0(all_products[i].fp32) - fp32_perf)
        \* abs(p_fp32 - fp32_perf) / (fp32_perf or 1) <= 0.2
        similar == [i \in 1..Len(all_products) |->
                       i \in cand
                       /\ 5 * diff(i) <= (IF fp32_perf = 0 THEN 1 ELSE fp32_perf)]
        \* p_price < prod_price * 0.9 and p_fp32 >= fp32_perf * 0.7
        cheaper == [i \in 1..Len(all_products) |->
                       i \in cand
                       /\ 10 * all_products[i].price < 9 * product.price
                       /\ 10 * GetOr0(all_products[i].fp32) >= 7 * fp32_perf]
        cur == {j \in 1..Len(supplier_matches) :
                    supplier_matches[j].product = product.id}
        midx == [j \in 1..Len(supplier_matches) |-> j]
        faster == [j \in 1..Len(supplier_matches) |->
                      /\ supplier_matches[j].product # product.id
                      /\ cur # {}
                      /\ supplier_matches[j].matchDetails.availability
                           > supplier_matches[SetMin(cur)].matchDetails.availability]
        better == [j \in 1..Len(supplier_matches) |->
                      /\ supplier_matches[j].product # product.id
                      /\ cur # {}
                      /\ supplier_matches[j].matchDetails.compliance
                           > supplier_matches[SetMin(cur)].matchDetails.compliance]
        ids(s)  == [n \in 1..Len(s) |-> all_products[s[n]].id]
        mids(s) == [n \in 1..Len(s) |-> supplier_matches[s[n]].product]
    IN  IF cand = {} THEN [NoAlternatives EXCEPT !.attached = TRUE]
        ELSE [attached |-> TRUE,
              similarPerformance |->
                  ids(Prefix(Values(SortAsc(Collect(idxs, similar,
                      [i \in 1..Len(all_products) |-> diff(i)]))), 3)),
              lowerCost |->
                  ids(Prefix(Values(SortDesc(Collect(idxs, cheaper,
                      [i \in 1..Len(all_products) |->
                          product.price - all_products[i].price]))), 3)),
              fasterDelivery |->
                  mids(Prefix(Values(SortDesc(Collect(midx, faster,
                      [j \in 1..Len(supplier_matches) |->
                          supplier_matches[j].matchDetails.availability]))), 3)),
              betterCompliance |->
                  mids(Prefix(Values(SortDesc(Collect(midx, better,
                      [j \in 1..Len(supplier_matches) |->
                          supplier_matches[j].matchDetails.compliance]))), 3))]

(***************************************************************************)
(* match_suppliers_for_rfq of ai_hardware_matching.py.                     *)
(* The RFQ is stored and carries requirements.  requirements has shape     *)
(* ("dict" for a payload kept as JSON, "object" for an                     *)
(* ExtractedRequirement), hasCategories, categories, hw, criteria and      *)
(* laptops.  failCategory is the category whose catalogue read raises      *)
(* ("" when none does).  The result is the returned list.                  *)
(***************************************************************************)
AiHwCategoryNames ==
    {"gpu", "ai accelerator", "ml accelerator", "tpu", "vpu", "fpga", "asic"}

aihw_categories(requirements) ==
    LET categories == IF requirements.shape = "object" \/ requirements.hasCategories
                      THEN requirements.categories
                      ELSE <<"GPU", "AI Accelerator">>
        ai_hw_categories ==
            SelectSeq(categories, LAMBDA c : LowerName(c) \in AiHwCategoryNames)
    IN  IF ai_hw_categories = <<>> THEN <<"GPU">> ELSE ai_hw_categories

aihw_get_quantity_for_category(requirements, category) ==
    IF /\ requirements.shape = "dict"
       /\ LowerName(category) \in {"gpu", "accelerator", "ai accelerator"}
       /\ ~requirements.hw.empty
       /\ requirements.hw.quantity # NoVal
    THEN requirements.hw.quantity
    ELSE 1

(* the supplier match of one product: <<>> when the product is skipped     *)
(* the SupplierMatch of a scored product: <<>> when the product is skipped *)
aihw_supplier_match(product, supplier, score, quantity) ==
    IF supplier.empty THEN <<>>
    ELSE IF score.raised THEN <<>>
    ELSE <<[product         |-> product.id,
            supplier        |-> supplier.id,
            category        |-> product.category,
            price           |-> product.price,
            matchScore      |-> score.num,
            den             |-> score.den,
            matchDetails    |-> score.details,
            totalPrice      |-> product.price * quantity,
            complianceNotes |-> score.compliance_notes,
            alternatives    |-> NoAlternatives]>>

aihw_process_product(product, requirements, buyer_country, category) ==
    aihw_supplier_match(
        product, get_supplier_by_id(product.supplierId),
        aihw_calculate_match_score(product,
                                   get_supplier_by_id(product.supplierId),
                                   requirements, buyer_country),
        aihw_get_quantity_for_category(requirements, category))

aihw_category_matches_aborting(rows, requirements, buyer_country, category) ==
    LET all_products == get_products_by_category(rows, category)
        processed == [i \in 1..Len(all_products) |->
                         aihw_process_product(all_products[i], requirements,
                                              buyer_country, category)]
        failed == {i \in 1..Len(all_products) : processed[i] = <<>>}
    IN  Concat(SubSeq(processed, 1,
                      IF failed = {} THEN Len(all_products)
                      ELSE SetMin(failed) - 1))

aihw_category_matches(rows, requirements, buyer_country, category) ==
    LET all_products == get_products_by_category(rows, category)
    IN  Concat([i \in 1..Len(all_products) |->
                   aihw_process_product(all_products[i], requirements,
                                        buyer_country, category)])

(* match_results.sort(key=lambda x: x.matchScore, reverse=True) *)
sort_by_match_score_unsorted(match_results) == match_results

sort_by_match_score(match_results) ==
    Values(SortDesc([i \in 1..Len(match_results) |->
                        [k |-> match_results[i].matchScore,
                         v |-> match_results[i]]]))

aihw_attach_alternatives(rows, match_results, all_products) ==
    [i \in 1..Len(match_results) |->
        IF i <= 5
        THEN [match_results[i] EXCEPT !.alternatives =
                  find_alternative_products(
                      CHOOSE row \in {rows[n] : n \in 1..Len(rows)} :
                          row.id = match_results[i].product,
                      all_products, match_results)]
        ELSE match_results[i]]

(* match_results = []: a list of the call, whatever earlier calls returned *)
new_match_results_carry(carried) == carried

new_match_results(carried) == <<>>

(* the catalogue read of a category raises, which ends the call in the     *)
(* outer except clause; an empty answer does not (continue)                *)
category_read_raises_or_empty(rows, category, failCategory) ==
    category = failCategory \/ get_products_by_category(rows, category) = <<>>

category_read_raises(rows, category, failCategory) == category = failCategory

aihw_all_matches(rows, requirements, buyer_country, ai_hw_categories) ==
    Concat([i \in 1..Len(ai_hw_categories) |->
               aihw_category_matches(rows, requirements, buyer_country,
                                     ai_hw_categories[i])])

aihw_match_categories(rows, requirements, buyer_country, ai_hw_categories, failCategory, carried) ==
    IF \E i \in 1..Len(ai_hw_categories) :
           category_read_raises(rows, ai_hw_categories[i], failCategory)
    THEN <<>>
    ELSE aihw_attach_alternatives(
             rows,
             sort_by_match_score(
                 new_match_results(carried)
                 \o aihw_all_matches(rows, requirements, buyer_country,
                                     ai_hw_categories)),
             \* all_products still holds the rows of the last category fetched
             get_products_by_category(rows,
                                      ai_hw_categories[Len(ai_hw_categories)]))

aihw_match_suppliers_for_rfq(rows, stored, failCategory, carried) ==
    aihw_match_categories(
        rows, stored.requirements,
        IF stored.buyer = "" THEN "United States" ELSE stored.buyer,
        aihw_categories(stored.requirements), failCategory, carried)

(***************************************************************************)
(* match_suppliers_for_rfq of supplier_matching.py.                        *)
(* semantic is the answer of the vector service to search_rfq_requirements *)
(* for every category of the call: "raise", "empty" (no result), "hits"    *)
(* (the indexed rows of the category, most similar first; a row carries    *)
(* its similarity in percent), "unfiltered" (the category filter of the    *)
(* search finds nothing and the search returns the rows of every category) *)
(* or "malformed_second" (the hits, of which the second is not a dict, so  *)
(* that reading it raises after the first hit was appended).  The result   *)
(* has the returned list and the proposals created in storage, in order.   *)
(***************************************************************************)
sm_categories(requirements) ==
    IF requirements.shape = "object" \/ requirements.hasCategories
    THEN requirements.categories
    ELSE <<>>

search_rfq_requirements(rows, category) ==
    LET in_category == get_products_by_category(rows, category)
    IN  Values(SortDesc([i \in 1..Len(in_category) |->
                            [k |-> in_category[i].similarity,
                             v |-> in_category[i]]]))

sm_match(product, supplier, num, details, semantic_score, quantity) ==
    [product         |-> product.id,
     supplier        |-> supplier.id,
     category        |-> product.category,
     price           |-> product.price,
     matchScore      |-> num,
     den             |-> SmDen,
     matchDetails    |-> [price    |-> details.price,
                          quality  |-> details.quality,
                          delivery |-> details.delivery,
                          semantic |-> semantic_score],
     totalPrice      |-> product.price * quantity,
     complianceNotes |-> <<>>,
     alternatives    |-> NoAlternatives]

(* blended_score = match_score * 0.7 + semantic_score * 0.3, over SmDen *)
sm_blended_score_even(match_score_num, semantic_score) ==
    (5 * match_score_num + 5 * semantic_score * SmDen) \div 10

sm_blended_score(match_score_num, semantic_score) ==
    (7 * match_score_num + 3 * semantic_score * SmDen) \div 10

(* the match of a product found by the semantic search, blended *)
sm_semantic_match(product, supplier, score, semantic_score, quantity) ==
    IF supplier.empty THEN <<>>
    ELSE <<sm_match(product, supplier,
                    sm_blended_score(score.num, semantic_score),
                    score.details, semantic_score, quantity)>>

sm_score_semantic_product(product, result, requirements, category) ==
    sm_semantic_match(
        product, get_supplier_by_id(product.supplierId),
        sm_calculate_match_score(product,
                                 get_supplier_by_id(product.supplierId),
                                 requirements, category),
        result.similarity,
        sm_get_quantity_for_category(requirements, category))

sm_found_product(found, result, requirements, category) ==
    IF found = <<>> THEN <<>>
    ELSE sm_score_semantic_product(found[1], result, requirements, category)

(* one semantic search result: <<>> when it is skipped *)
sm_process_semantic_result(rows, result, requirements, category) ==
    sm_found_product(get_product_by_id(rows, result.id), result, requirements,
                     category)

(* the match of a product of the traditional matching *)
sm_traditional_match_blended(product, supplier, score, quantity) ==
    IF supplier.empty THEN <<>>
    ELSE <<sm_match(product, supplier, sm_blended_score(score.num, 50),
                    score.details, NoVal, quantity)>>

sm_traditional_match(product, supplier, score, quantity) ==
    IF supplier.empty THEN <<>>
    ELSE <<sm_match(product, supplier, score.num, score.details, NoVal,
                    quantity)>>

(* one product of the traditional matching: <<>> without a supplier *)
sm_process_product(product, requirements, category) ==
    sm_traditional_match(
        product, get_supplier_by_id(product.supplierId),
        sm_calculate_match_score(product,
                                 get_supplier_by_id(product.supplierId),
                                 requirements, category),
        sm_get_quantity_for_category(requirements, category))

(* search_similar_products when no result passes the category filter: the *)
(* unfiltered results, most similar first                                  *)
search_unfiltered(rows) ==
    Values(SortDesc([i \in 1..Len(rows) |->
                        [k |-> rows[i].similarity, v |-> rows[i]]]))

semantic_results_of(rows, category, semantic) ==
    IF semantic \in {"hits", "malformed_second"}
    THEN search_rfq_requirements(rows, category)
    ELSE IF semantic = "unfiltered" THEN search_unfiltered(rows)
    ELSE <<>>

sm_use_semantic_results(semantic, semantic_results) ==
    semantic \in {"hits", "unfiltered", "malformed_second"}
        /\ semantic_results # <<>>

sm_process_category(rows, all_products, semantic, semantic_results, requirements, category) ==
    IF all_products = <<>> THEN <<>>
    ELSE IF semantic = "malformed_second" /\ Len(semantic_results) >= 2
    \* the first hit is appended, the second raises into the outer except
    \* clause, and the traditional matching then scores the whole category
    THEN sm_process_semantic_result(rows, semantic_results[1], requirements,
                                    category)
         \o Concat([i \in 1..Len(all_products) |->
                sm_process_product(all_products[i], requirements, category)])
    ELSE IF sm_use_semantic_results(semantic, semantic_results)
    THEN Concat([i \in 1..Len(semantic_results) |->
             sm_process_semantic_result(rows, semantic_results[i],
                                        requirements, category)])
    ELSE Concat([i \in 1..Len(all_products) |->
             sm_process_product(all_products[i], requirements, category)])

sm_category_matches(rows, requirements, category, semantic) ==
    sm_process_category(rows, get_products_by_category(rows, category),
                        semantic,
                        semantic_results_of(rows, category, semantic),
                        requirements, category)

create_proposals(match_results) ==
    [i \in 1..Len(match_results) |->
        [productId |-> match_results[i].product,
         score     |-> match_results[i].matchScore]]

(* the categories processed before the catalogue read of one raises *)
RECURSIVE BeforeFailure(_, _, _)
BeforeFailure(rows, categories, failCategory) ==
    IF categories = <<>> THEN <<>>
    ELSE IF category_read_raises(rows, Head(categories), failCategory) THEN <<>>
    ELSE <<Head(categories)>>
         \o BeforeFailure(rows, Tail(categories), failCategory)

sm_all_matches(rows, requirements, processed, semantic) ==
    Concat([i \in 1..Len(processed) |->
               sm_category_matches(rows, requirements, processed[i], semantic)])

(* the returned list and the proposals written, from the matches created *)
sm_outcome(categories, processed, created, carried) ==
    [matches   |-> IF Len(processed) < Len(categories) THEN <<>>
                   ELSE sort_by_match_score(new_match_results(carried)
                                            \o created),
     proposals |-> create_proposals(created)]

sm_match_categories(rows, requirements, categories, processed, semantic, carried) ==
    sm_outcome(categories, processed,
               sm_all_matches(rows, requirements, processed, semantic),
               carried)

sm_match_suppliers_for_rfq(rows, stored, failCategory, semantic, carried) ==
    sm_match_categories(
        rows, stored.requirements, sm_categories(stored.requirements),
        BeforeFailure(rows, sm_categories(stored.requirements), failCategory),
        semantic, carried)

(***************************************************************************)
(* Inputs: catalogue rows, RFQs and collaborator answers                   *)
(***************************************************************************)
BaseRow ==
    [empty |-> FALSE, id |-> 0, category |-> "GPU", price |-> 800,
     supplierId |-> 1, restrictedCountries |-> {}, exportRestrictions |-> FALSE,
     memCap |-> NoVal, memBw |-> NoVal, fp32 |-> NoVal, int8 |-> NoVal,
     tensorCores |-> NoVal, tdp |-> NoVal, supportedFrameworks |-> {}, inStock |-> TRUE,
     specKeys |-> {}, processor |-> <<>>, memory |-> <<>>, storage |-> <<>>,
     display |-> <<>>, warranty |-> <<>>, similarity |-> 50]

AiRowPool ==
    { [BaseRow EXCEPT !.memCap = 16, !.fp32 = 30, !.tdp = 250,
                      !.supportedFrameworks = {"tensorflow", "pytorch"}],
      [BaseRow EXCEPT !.price = 500, !.memCap = 16, !.fp32 = 30, !.tdp = 250,
                      !.supportedFrameworks = {"tensorflow", "pytorch"}],
      [BaseRow EXCEPT !.category = "TPU", !.price = 12000, !.supplierId = 2,
                      !.restrictedCountries = {"Iran", "North Korea"},
                      !.exportRestrictions = TRUE, !.memCap = 80, !.fp32 = 60,
                      !.tdp = 400, !.supportedFrameworks = {"tensorflow"}],
      [BaseRow EXCEPT !.supplierId = 3, !.memCap = 48, !.fp32 = 40] }

SmRowPool ==
    { [BaseRow EXCEPT !.category = "Laptops", !.price = 999,
          !.specKeys = {"processor", "memory"},
          !.processor = <<"I", "n", "t", "e", "l", " ", "C", "o", "r", "e", " ",
                          "i", "5", "-", "1", "1", "3", "5", "G", "7">>,
          !.memory = <<"1", "6", "G", "B", " ", "D", "D", "R", "4">>,
          !.warranty = <<"3", " ", "y", "e", "a", "r", "s">>,
          !.similarity = 90],
      [BaseRow EXCEPT !.category = "Laptops", !.price = 1600, !.supplierId = 2,
          !.specKeys = {"processor", "memory"},
          !.processor = <<"A", "M", "D", " ", "R", "y", "z", "e", "n", " ", "7">>,
          !.memory = <<"8", "G", "B">>,
          !.similarity = 40],
      [BaseRow EXCEPT !.category = "Monitors", !.price = 300, !.supplierId = 2,
          !.similarity = 70],
      [BaseRow EXCEPT !.category = "Laptops", !.price = 450, !.supplierId = 3,
          !.similarity = 80] }

(* the catalogues: MaxProducts rows, the row at index i has id i *)
Catalogues(pool) ==
    { [i \in 1..MaxProducts |-> [f[i] EXCEPT !.id = i]] :
        f \in [1..MaxProducts -> pool] }

NoCriteria ==
    [price |-> NoVal, performance |-> NoVal, compatibility |-> NoVal,
     availability |-> NoVal, compliance |-> NoVal, quality |-> NoVal,
     delivery |-> NoVal]

SmCriteriaPool ==
    { NoCriteria,
      [price |-> 0, performance |-> 0, compatibility |-> 0, availability |-> 0,
       compliance |-> 0, quality |-> 0, delivery |-> 0],
      [price |-> 100, performance |-> 100, compatibility |-> 100,
       availability |-> 100, compliance |-> 100, quality |-> 100,
       delivery |-> 100] }

CriteriaPool ==
    SmCriteriaPool
    \cup { [NoCriteria EXCEPT !.price = 30, !.performance = 40,
                              !.availability = 15, !.compliance = 15] }

NoHw == [empty |-> TRUE, quantity |-> NoVal, minComputePower |-> NoVal,
         minTensorCores |-> NoVal, minMemory |-> NoVal, powerConstraints |-> NoVal,
         hasFrameworks |-> FALSE, frameworks |-> {}]

HwPool ==
    { [empty |-> FALSE, quantity |-> 2, minComputePower |-> 20,
       minTensorCores |-> NoVal, minMemory |-> 24,
       powerConstraints |-> 300, hasFrameworks |-> TRUE,
       frameworks |-> {"tensorflow", "pytorch"}] }

NoLaptops == [present |-> FALSE, quantity |-> 1, processor |-> <<>>,
              memory |-> <<>>, storage |-> <<>>, display |-> <<>>,
              warranty |-> <<>>]

LaptopsPool ==
    { [present |-> TRUE, quantity |-> 2,
       processor |-> <<"I", "n", "t", "e", "l", " ", "C", "o", "r", "e", " ",
                       "i", "5">>,
       memory |-> <<"1", "6", "G", "B", " ", "D", "D", "R", "4">>,
       storage |-> <<>>, display |-> <<>>, warranty |-> <<>>] }

AiCategoryLists ==
    { <<"GPU">>, <<"GPU", "TPU">>, <<"TPU", "GPU">>, <<"FPGA", "GPU">>,
      <<"GPU", "FPGA">> }

SmCategoryLists ==
    { <<"Laptops">>, <<"Laptops", "Monitors">>, <<"Monitors", "Laptops">>,
      <<"Tablets", "Laptops">>, <<"Laptops", "Tablets">> }

(* payloads without a category: an empty list, or no recognised name *)
NoCategoryLists == { <<>>, <<"Laptops">> }

Buyers == {"", "Iran"}

AiRequirements(sh, cs, hw, cr) ==
    [shape |-> sh, hasCategories |-> TRUE, categories |-> cs, hw |-> hw,
     criteria |-> cr, laptops |-> NoLaptops]

(* the requirements are a dict (a payload kept as JSON) or, once only, an  *)
(* ExtractedRequirement object                                             *)
AiRfqs ==
    { [buyer |-> b, requirements |-> AiRequirements("dict", cs, hw, cr)] :
        b \in Buyers, cs \in AiCategoryLists, hw \in HwPool,
        cr \in CriteriaPool }
    \cup { [buyer |-> "",
            requirements |-> AiRequirements("object", <<"GPU">>, hw,
                                            NoCriteria)] : hw \in HwPool }
    \cup { [buyer |-> "",
            requirements |-> AiRequirements("dict", cs, hw, NoCriteria)] :
             cs \in NoCategoryLists, hw \in HwPool }
    \cup { [buyer |-> "",
            requirements |-> [AiRequirements("dict", <<>>, hw, NoCriteria)
                                 EXCEPT !.hasCategories = FALSE]] :
             hw \in HwPool }

SmRfqs ==
    { [buyer |-> "",
       requirements |-> [shape |-> "object", hasCategories |-> TRUE,
                         categories |-> cs, hw |-> NoHw, criteria |-> cr,
                         laptops |-> lp]] :
        cs \in SmCategoryLists, lp \in LaptopsPool, cr \in SmCriteriaPool }
    \cup { [buyer |-> "",
            requirements |-> [shape |-> "object", hasCategories |-> TRUE,
                              categories |-> <<>>, hw |-> NoHw,
                              criteria |-> NoCriteria, laptops |-> lp]] :
             lp \in LaptopsPool }

AiCollabs == { [failCategory |-> fc, semantic |-> "raise"] : fc \in {"", "TPU"} }

SmCollabs ==
    { [failCategory |-> "", semantic |-> sem] :
        sem \in {"raise", "empty", "hits"} }
    \cup { [failCategory |-> "Monitors", semantic |-> "hits"] }

(***************************************************************************)
(* The matching service.  routes.py binds match_suppliers_for_rfq to one   *)
(* of the two services; handler records which one serves the RFQ.          *)
(***************************************************************************)
Init ==
    /\ \/ /\ handler = "aihw"
          /\ products \in Catalogues(AiRowPool)
          /\ rfq \in AiRfqs
          /\ collab \in AiCollabs
       \/ /\ handler = "sm"
          /\ products \in Catalogues(SmRowPool)
          /\ rfq \in SmRfqs
          /\ collab \in SmCollabs
    /\ proposals = <<>>
    /\ matches = <<>>
    /\ prevMatches = <<>>
    /\ status = "idle"
    /\ calls = 0
    /\ call = NoCall

AihwMatch ==
    /\ handler = "aihw"
    /\ calls < MaxCalls
    /\ matches' = aihw_match_suppliers_for_rfq(products, rfq,
                                                collab.failCategory, matches)
    /\ prevMatches' = matches
    /\ status' = "returned"
    /\ calls' = calls + 1
    /\ UNCHANGED <<products, rfq, collab, proposals, handler, call>>

SmMatch ==
    /\ handler = "sm"
    /\ calls < MaxCalls
    /\ \E r \in {sm_match_suppliers_for_rfq(products, rfq, collab.failCategory,
                                             collab.semantic, matches)} :
           /\ matches' = r.matches
           /\ proposals' = proposals \o r.proposals
    /\ prevMatches' = matches
    /\ status' = "returned"
    /\ calls' = calls + 1
    /\ UNCHANGED <<products, rfq, collab, handler, call>>

Next == AihwMatch \/ SmMatch

Spec == Init /\ [][Next]_vars

(***************************************************************************)
(* The scorers called on their own                                         *)
(***************************************************************************)
WeightValues == {0, 30, 100}

ScoreCriteria ==
    { [price |-> p, performance |-> q, compatibility |-> c, availability |-> a,
       compliance |-> l, quality |-> q, delivery |-> a] :
        p \in WeightValues, q \in WeightValues, c \in WeightValues \cup {NoVal},
        a \in WeightValues, l \in WeightValues \cup {NoVal} }

ScoreRequirements(cr) ==
    [shape |-> "dict", hasCategories |-> TRUE, categories |-> <<"GPU">>,
     hw |-> CHOOSE hw \in HwPool : TRUE, criteria |-> cr,
     laptops |-> CHOOSE lp \in LaptopsPool : TRUE]

InitScore ==
    /\ products = <<>>
    /\ rfq = [buyer |-> "", requirements |-> ScoreRequirements(NoCriteria)]
    /\ collab = [failCategory |-> "", semantic |-> "raise"]
    /\ proposals = <<>>
    /\ matches = <<>>
    /\ prevMatches = <<>>
    /\ status = "idle"
    /\ handler = "none"
    /\ calls = 0
    /\ call = NoCall

AihwScore ==
    \E row \in AiRowPool, cr \in ScoreCriteria, buyer_country \in {"United States", "Iran"} :
        /\ call = NoCall
        /\ row.supplierId \in DOMAIN SupplierTable
        /\ call' = [fn   |-> "aihw_calculate_match_score",
                    args |-> <<row, cr, buyer_country>>,
                    ret  |-> aihw_calculate_match_score(
                                 row, get_supplier_by_id(row.supplierId),
                                 ScoreRequirements(cr), buyer_country)]
        /\ UNCHANGED <<products, rfq, collab, proposals, matches, prevMatches,
                       status, handler, calls>>

SmScore ==
    \E row \in SmRowPool, cr \in ScoreCriteria :
        /\ call = NoCall
        /\ row.supplierId \in DOMAIN SupplierTable
        /\ call' = [fn   |-> "sm_calculate_match_score",
                    args |-> <<row, cr, "">>,
                    ret  |-> [raised |-> FALSE] @@
                             sm_calculate_match_score(
                                 row, get_supplier_by_id(row.supplierId),
                                 ScoreRequirements(cr), row.category)]
        /\ UNCHANGED <<products, rfq, collab, proposals, matches, prevMatches,
                       status, handler, calls>>

NextScore == AihwScore \/ SmScore

SpecScore == InitScore /\ [][NextScore]_vars

(***************************************************************************)
(* The compliance gate called on its own                                   *)
(***************************************************************************)
GateBuyers == {"", "United States", "Russia", "China", "Iran", "Germany"}

GateProducts ==
    { [BaseRow EXCEPT !.restrictedCountries = rc, !.exportRestrictions = er,
                      !.memCap = mc, !.fp32 = fp] :
        rc \in {{}, {"Iran"}, {"Russia", "Iran"}}, er \in BOOLEAN,
        mc \in {NoVal, 16, 32, 80}, fp \in {NoVal, 60} }
    \cup { [BaseRow EXCEPT !.empty = TRUE] }

GateSuppliers ==
    { [NoSupplier EXCEPT !.empty = FALSE, !.id = 1, !.country = c] :
        c \in {"United States", "European Union", "Germany", "Iran", "Unknown"} }
    \cup { NoSupplier }

CheckCompliance ==
    \E buyer_country \in GateBuyers, product \in GateProducts,
       supplier \in GateSuppliers :
        /\ call = NoCall
        /\ call' = [fn   |-> "check_compliance_match",
                    args |-> <<buyer_country, product, supplier>>,
                    ret  |-> check_compliance_match(buyer_country, product,
                                                    supplier)]
        /\ UNCHANGED <<products, rfq, collab, proposals, matches, prevMatches,
                       status, handler, calls>>

SpecCompliance == InitScore /\ [][CheckCompliance]_vars

(***************************************************************************)
(* Properties                                                              *)
(***************************************************************************)
ReqCategories ==
    IF handler = "aihw" THEN aihw_categories(rfq.requirements)
    ELSE sm_categories(rfq.requirements)

BuyerCountry == IF rfq.buyer = "" THEN "United States" ELSE rfq.buyer

ReadFails ==
    \E i \in 1..Len(ReqCategories) : ReqCategories[i] = collab.failCategory

HasProducts(category) == get_products_by_category(products, category) # <<>>

CategoryMatchesOf(category) ==
    IF handler = "aihw"
    THEN aihw_category_matches(products, rfq.requirements, BuyerCountry, category)
    ELSE sm_category_matches(products, rfq.requirements, category,
                             collab.semantic)

MatchesOfCategories(categories) ==
    sort_by_match_score(Concat([i \in 1..Len(categories) |->
                                   CategoryMatchesOf(categories[i])]))

Ranking(ms) ==
    [i \in 1..Len(ms) |-> [product      |-> ms[i].product,
                           matchScore   |-> ms[i].matchScore,
                           matchDetails |-> ms[i].matchDetails]]

Returned == status = "returned"

RECURSIVE SumOver(_, _)
SumOver(f, keys) ==
    IF keys = {} THEN 0
    ELSE LET k == CHOOSE x \in keys : TRUE
         IN  f[k] + SumOver(f, keys \ {k})

SumOfFields(f) == SumOver(f, DOMAIN f)

(* C1: a candidate whose compliance score is 0 for the buyer's country is  *)
(* never in the list the AI hardware match_suppliers_for_rfq returns.      *)
(* The handler has no such filter, so this is violated.                    *)
C1_HardBlockedNeverReturned ==
    (handler = "aihw" /\ Returned) =>
        \A i \in 1..Len(matches) :
            check_compliance_match(
                BuyerCountry, products[matches[i].product],
                get_supplier_by_id(matches[i].supplier)).score # 0

(* C2: every returned matchScore is between 0 and 100 points, and every    *)
(* sub-score of matchDetails is between 0 and 100, for any weights in      *)
(* 0..100.  The laptop scorer does not renormalise, so this is violated.   *)
C2_ScoresWithinRange ==
    Returned =>
        \A i \in 1..Len(matches) :
            /\ 0 <= matches[i].matchScore
            /\ matches[i].matchScore <= 100 * matches[i].den
            /\ IF handler = "aihw"
               THEN \A k \in DOMAIN matches[i].matchDetails :
                        /\ 0 <= matches[i].matchDetails[k]
                        /\ matches[i].matchDetails[k] <= 1000
               ELSE /\ \A k \in {"price", "quality", "delivery"} :
                        /\ 0 <= matches[i].matchDetails[k]
                        /\ matches[i].matchDetails[k] <= 100 * SmDetailDen
                    /\ matches[i].matchDetails.semantic \in {NoVal} \cup 0..100

(* C3: a scorer called with weights in 0..100 completes without an         *)
(* arithmetic error and applies weights that sum to 1, the all-zero        *)
(* weights included.  Violated: the AI scorer divides by a zero total and  *)
(* the laptop scorer applies weight / 100 unnormalised.                    *)
C3_AppliedWeightsSumToOne ==
    (call.fn \in {"aihw_calculate_match_score", "sm_calculate_match_score"}) =>
        /\ ~call.ret.raised
        /\ (call.fn = "sm_calculate_match_score" => call.ret.weighted) =>
               SumOfFields(call.ret.applied) = call.ret.wden

C5_SortedByScoreDescending ==
    Returned =>
        \A i, j \in 1..Len(matches) :
            i < j => matches[i].matchScore >= matches[j].matchScore

C5_Witness ==
    /\ Returned
    /\ handler = "aihw"
    /\ Len(matches) >= 2
    /\ matches[1].category # matches[2].category
    /\ matches[1].product > matches[2].product
    /\ matches[1].matchScore > matches[2].matchScore
    /\ matches[1].alternatives.attached

(* C6: candidates with equal matchScore are returned by price ascending    *)
(* and then by product id ascending.  Violated: the sort is on matchScore  *)
(* alone and keeps the catalogue order of ties.                            *)
C6_TiesByPriceThenId ==
    Returned =>
        \A i, j \in 1..Len(matches) :
            (i < j /\ matches[i].matchScore = matches[j].matchScore) =>
                \/ matches[i].price < matches[j].price
                \/ /\ matches[i].price = matches[j].price
                   /\ matches[i].product < matches[j].product

(* C7: check_compliance_match returns score 0 with the restriction note    *)
(* whenever the product's restrictedCountries contains the buyer's         *)
(* country, whatever the supplier record holds, empty included.  Violated: *)
(* the insufficient-data guard runs first and returns 0.5.                 *)
C7_RestrictedCountryHardBlock ==
    (call.fn = "check_compliance_match"
        /\ call.args[1] \in call.args[2].restrictedCountries) =>
        /\ call.ret.score = 0
        /\ call.ret.notes[1] = "export_restricted"

(* C8: with no catalogue read failing, a requested category without        *)
(* products contributes nothing and the returned candidates, scores and    *)
(* details are those of the other requested categories, wherever the       *)
(* empty category stands in the list.                                      *)
C8_EmptyCategorySkipped ==
    (Returned /\ ~ReadFails
        /\ \E i \in 1..Len(ReqCategories) : ~HasProducts(ReqCategories[i])) =>
        /\ \A i \in 1..Len(matches) : HasProducts(matches[i].category)
        /\ Ranking(matches) =
               Ranking(MatchesOfCategories(
                   SelectSeq(ReqCategories, HasProducts)))

C8_Witness ==
    /\ Returned
    /\ ~ReadFails
    /\ Len(ReqCategories) = 2
    /\ ~HasProducts(ReqCategories[2])
    /\ Len(matches) >= 2

(* C9: when the catalogue read of one requested category raises, the       *)
(* category counts as having no candidates and the matches of the other    *)
(* categories are still returned.  Violated: the outer except clause       *)
(* returns the empty list.                                                 *)
C9_ReadFailureIsZeroCandidates ==
    (Returned /\ ReadFails) =>
        Ranking(matches) =
            Ranking(MatchesOfCategories(
                SelectSeq(ReqCategories,
                          LAMBDA c : c # collab.failCategory)))

(* C10: in the laptop handler, when the semantic service raises or returns *)
(* no result (and no catalogue read fails), every product of a requested   *)
(* category that has a supplier is returned with matchScore equal to its   *)
(* heuristic score and without a semantic entry.                           *)
C10_SemanticFailureFallsBack ==
    (handler = "sm" /\ Returned /\ collab.semantic \in {"raise", "empty"}
        /\ ~ReadFails) =>
        \A c \in 1..Len(ReqCategories), n \in 1..Len(products) :
            (CategoryMatches(products[n], ReqCategories[c])
                /\ ~get_supplier_by_id(products[n].supplierId).empty) =>
                \E i \in 1..Len(matches) :
                    /\ matches[i].product = products[n].id
                    /\ matches[i].matchScore =
                           sm_calculate_match_score(
                               products[n],
                               get_supplier_by_id(products[n].supplierId),
                               rfq.requirements, ReqCategories[c]).num
                    /\ matches[i].matchDetails.semantic = NoVal

C10_Witness ==
    /\ handler = "sm"
    /\ Returned
    /\ collab.semantic = "raise"
    /\ ~ReadFails
    /\ Len(matches) >= 2
    /\ matches[1].matchScore # 50 * SmDen
    /\ matches[1].matchDetails.semantic = NoVal
    /\ \E n \in 1..Len(products) :
           get_supplier_by_id(products[n].supplierId).empty

(* the heuristic score of the product of a returned laptop-handler match *)
HeuristicOf(m) ==
    sm_calculate_match_score(products[m.product],
                             get_supplier_by_id(m.supplier),
                             rfq.requirements, m.category)

BlendOf(m, h) ==
    /\ m.matchDetails.semantic \in 0..100
    /\ 10 * m.matchScore = 7 * h.num + 3 * m.matchDetails.semantic * SmDen
    /\ m.matchDetails.price = h.details.price
    /\ m.matchDetails.quality = h.details.quality
    /\ m.matchDetails.delivery = h.details.delivery
    /\ (0 <= h.num /\ h.num <= 100 * SmDen) =>
           (0 <= m.matchScore /\ m.matchScore <= 100 * SmDen)

(* C11: a candidate returned from the semantic path with similarity s and  *)
(* heuristic score h has matchScore = 0.7 * h + 0.3 * (100 * s), carries   *)
(* the unblended price, quality and delivery sub-scores, and its blended   *)
(* score is within [0, 100] whenever h is.                                 *)
C11_SemanticBlend ==
    (handler = "sm" /\ Returned) =>
        \A i \in 1..Len(matches) :
            matches[i].matchDetails.semantic # NoVal =>
                BlendOf(matches[i], HeuristicOf(matches[i]))

C11_Witness ==
    /\ handler = "sm"
    /\ Returned
    /\ \E i \in 1..Len(matches) :
           /\ matches[i].matchDetails.semantic = 90
           /\ HeuristicOf(matches[i]).weighted
           /\ HeuristicOf(matches[i]).num <= 100 * SmDen
           /\ matches[i].matchScore # HeuristicOf(matches[i]).num
           /\ BlendOf(matches[i], HeuristicOf(matches[i]))

(***************************************************************************)
(* calculate_price_score of both services: the score of a product against *)
(* the prices of its category, as a fraction num / den                     *)
(***************************************************************************)
PricesOfCategory(all_products, category) ==
    [i \in 1..Len(SelectSeq(all_products, LAMBDA p : p.category = category))
        |-> SelectSeq(all_products, LAMBDA p : p.category = category)[i].price]

(* prices.sort(); prices.index(price): the prices strictly below price *)
PriceIndex(prices, price) ==
    Cardinality({i \in 1..Len(prices) : prices[i] < price})

(* 100 - percentile * 100, * 120 from weight 40 on, * 70 up to weight 15 *)
PercentileFactor(price_weight) ==
    IF price_weight >= 40 THEN 120
    ELSE IF price_weight <= 15 THEN 70
    ELSE 100

Clamp(lo, hi, x) == Max2(lo, Min2(hi, x))

aihw_percentile_score_from_top(prices, price, price_weight) ==
    IF prices = <<>> \/ ~InSeq(price, prices) THEN [num |-> 75, den |-> 1]
    ELSE [num |-> Clamp(40 * Len(prices), 100 * Len(prices),
                        100 * Len(prices)
                        - (Len(prices) - 1 - PriceIndex(prices, price))
                          * PercentileFactor(price_weight)),
          den |-> Len(prices)]

aihw_percentile_score(prices, price, price_weight) ==
    IF prices = <<>> \/ ~InSeq(price, prices) THEN [num |-> 75, den |-> 1]
    ELSE [num |-> Clamp(40 * Len(prices), 100 * Len(prices),
                        100 * Len(prices)
                        - PriceIndex(prices, price)
                          * PercentileFactor(price_weight)),
          den |-> Len(prices)]

aihw_calculate_price_score(product, all_products, criteria) ==
    aihw_percentile_score(PricesOfCategory(all_products, product.category),
                          product.price, WeightOr(criteria.price, 25))

SeqMin(s) == SetMin({s[i] : i \in 1..Len(s)})

SeqMax(s) == CHOOSE x \in {s[i] : i \in 1..Len(s)} : \A i \in 1..Len(s) : s[i] <= x

sm_range_score(min_price, max_price, price) ==
    IF max_price - min_price = 0 THEN [num |-> 80, den |-> 1]
    ELSE [num |-> Clamp(0, 100 * (max_price - min_price),
                        100 * (max_price - min_price)
                        - (price - min_price) * 100),
          den |-> max_price - min_price]

sm_price_range_score(prices, price) ==
    IF prices = <<>> THEN [num |-> 50, den |-> 1]
    ELSE sm_range_score(SeqMin(prices), SeqMax(prices), price)

sm_calculate_price_score(product, all_products, criteria) ==
    IF all_products = <<>> THEN [num |-> 50, den |-> 1]
    ELSE sm_price_range_score(PricesOfCategory(all_products, product.category),
                              product.price)

(***************************************************************************)
(* The price scorers called on two candidates of one catalogue             *)
(***************************************************************************)
PriceRowPool ==
    { [BaseRow EXCEPT !.category = c, !.price = p] :
        c \in {"GPU", "Laptops"}, p \in {500, 800, 1600} }

PriceScorers == {"percentile", "range", "sm_bands", "aihw_bands"}

PriceScoreBy(scorer, product, all_products, criteria) ==
    CASE scorer = "percentile" ->
             aihw_calculate_price_score(product, all_products, criteria)
      [] scorer = "range" ->
             sm_calculate_price_score(product, all_products, criteria)
      [] scorer = "sm_bands" -> [num |-> sm_price_score(product), den |-> 1]
      [] OTHER -> [num |-> aihw_price_score(product), den |-> 1]

InitPrice ==
    /\ products \in Catalogues(PriceRowPool)
    /\ rfq \in { [buyer |-> "",
                  requirements |->
                      ScoreRequirements([NoCriteria EXCEPT !.price = w])] :
                   w \in {NoVal, 10, 50} }
    /\ collab = [failCategory |-> "", semantic |-> "raise"]
    /\ proposals = <<>>
    /\ matches = <<>>
    /\ prevMatches = <<>>
    /\ status = "idle"
    /\ handler = "none"
    /\ calls = 0
    /\ call = NoCall

PriceScores ==
    \E a \in 1..Len(products), b \in 1..Len(products), scorer \in PriceScorers :
        /\ call = NoCall
        /\ products[a].category = products[b].category
        /\ products[a].price < products[b].price
        /\ call' = [fn   |-> "calculate_price_score",
                    args |-> <<scorer, a, b>>,
                    ret  |-> <<PriceScoreBy(scorer, products[a], products,
                                            rfq.requirements.criteria),
                               PriceScoreBy(scorer, products[b], products,
                                            rfq.requirements.criteria)>>]
        /\ UNCHANGED <<products, rfq, collab, proposals, matches, prevMatches,
                       status, handler, calls>>

SpecPrice == InitPrice /\ [][PriceScores]_vars

(* C12: of two candidates of one category and RFQ, the cheaper one has a   *)
(* price sub-score at least as high as the dearer one, under the           *)
(* percentile scorer, the range scorer and the fixed bands of both         *)
(* calculate_match_score, for every price weight.                          *)
C12_PriceScoreMonotone ==
    call.fn = "calculate_price_score" =>
        call.ret[1].num * call.ret[2].den >= call.ret[2].num * call.ret[1].den

C12_Witness ==
    /\ call.fn = "calculate_price_score"
    /\ call.args[1] = "percentile"
    /\ call.args[2] > call.args[3]
    /\ call.ret[1].num * call.ret[2].den > call.ret[2].num * call.ret[1].den
    /\ call.ret[2].num < 100 * call.ret[2].den

(* C13: a call of match_suppliers_for_rfq writes nothing to storage: the   *)
(* stored proposals, products and RFQ are the same after the call as       *)
(* before.  Violated: the laptop handler creates a proposal for every      *)
(* match it builds.                                                        *)
C13_NoStorageWrite ==
    [][/\ proposals' = proposals
       /\ products' = products
       /\ rfq' = rfq]_vars

NoCategoriesGiven ==
    \/ rfq.requirements.shape = "dict" /\ ~rfq.requirements.hasCategories
    \/ rfq.requirements.categories = <<>>
    \/ /\ handler = "aihw"
       /\ \A i \in 1..Len(rfq.requirements.categories) :
              LowerName(rfq.requirements.categories[i]) \notin AiHwCategoryNames

(* C14: when the requirement payload has no categories (key absent, empty  *)
(* list, or no recognised name), the call matches exactly one default      *)
(* category and returns the matches of its catalogue.  Violated: the       *)
(* laptop handler returns the empty list, and the AI handler defaults to   *)
(* two categories when the key is absent.                                  *)
C14_DefaultCategory ==
    (Returned /\ NoCategoriesGiven /\ ~ReadFails) =>
        /\ Len(ReqCategories) = 1
        /\ Ranking(matches) = Ranking(MatchesOfCategories(ReqCategories))

(***************************************************************************)
(* ensure_extracted_requirement.  A value given to it is a record with     *)
(* kind ("object" for an ExtractedRequirement, "dict", or "other" for a    *)
(* string, None or a list), ref (the identity of an object, 0 for a value  *)
(* that is none), hasTitle, title, hasCategories, categories, hasCriteria, *)
(* price (the price weight of its criteria) and wellTyped (every key of a  *)
(* dict is a field name and every value validates against the schema).    *)
(***************************************************************************)
NewRef == 0

DefaultRequirementWeights == [price |-> 30, quality |-> 30, delivery |-> 20]

DefaultRequirement ==
    [kind |-> "object", ref |-> NewRef,
     title |-> "Default AI Hardware Requirements",
     categories |-> <<"GPU", "AI Accelerator">>,
     criteria |-> DefaultRequirementWeights]

(* The ExtractedRequirement constructor validates: title and categories    *)
(* are required, criteria has been filled in when missing                  *)
constructor_raises(requirements) ==
    ~requirements.hasTitle \/ ~requirements.hasCategories
        \/ ~requirements.wellTyped

(* AwardCriteria keeps price, quality and delivery; the missing ones take  *)
(* the schema defaults and the other keys of the dict are ignored          *)
construct_from_dict(requirements) ==
    [kind |-> "object", ref |-> NewRef, title |-> requirements.title,
     categories |-> requirements.categories,
     criteria |-> [price    |-> IF requirements.hasCriteria
                                THEN requirements.price ELSE 30,
                   quality  |-> 30,
                   delivery |-> 20]]

ensure_extracted_requirement_unguarded(requirements) ==
    IF requirements.kind = "object"
    THEN [raised |-> FALSE, value |-> requirements]
    ELSE IF requirements.kind = "dict"
    THEN [raised |-> constructor_raises(requirements),
          value  |-> construct_from_dict(requirements)]
    ELSE [raised |-> FALSE, value |-> DefaultRequirement]

ensure_extracted_requirement(requirements) ==
    IF requirements.kind = "object"
    THEN [raised |-> FALSE, value |-> requirements]
    ELSE IF requirements.kind = "dict" /\ ~constructor_raises(requirements)
    THEN [raised |-> FALSE, value |-> construct_from_dict(requirements)]
    ELSE [raised |-> FALSE, value |-> DefaultRequirement]

RequirementValues ==
    { [kind |-> "dict", ref |-> NewRef, hasTitle |-> ht, title |-> t,
       hasCategories |-> hc, categories |-> cs, hasCriteria |-> hcr,
       price |-> 25, wellTyped |-> wt, criteria |-> DefaultRequirementWeights] :
        ht \in BOOLEAN, t \in {"Test RFQ", "Default AI Hardware Requirements"},
        hc \in BOOLEAN, cs \in {<<>>, <<"GPU">>, <<"GPU", "AI Accelerator">>},
        hcr \in BOOLEAN, wt \in BOOLEAN }
    \cup
    { [kind |-> "object", ref |-> r, hasTitle |-> TRUE, title |-> t,
       hasCategories |-> TRUE, categories |-> cs, hasCriteria |-> TRUE,
       price |-> 50, wellTyped |-> TRUE,
       criteria |-> [price |-> 50, quality |-> 30, delivery |-> 20]] :
        r \in {1, 2}, t \in {"Test RFQ", "Default AI Hardware Requirements"},
        cs \in {<<>>, <<"GPU">>, <<"GPU", "AI Accelerator">>} }
    \cup
    { [kind |-> "other", ref |-> NewRef, hasTitle |-> FALSE, title |-> t,
       hasCategories |-> FALSE, categories |-> <<>>, hasCriteria |-> FALSE,
       price |-> 25, wellTyped |-> FALSE,
       criteria |-> DefaultRequirementWeights] :
        t \in {"invalid input", "", "None"} }

EnsureRequirement ==
    \E requirements \in RequirementValues :
        /\ call = NoCall
        /\ call' = [fn   |-> "ensure_extracted_requirement",
                    args |-> <<requirements>>,
                    ret  |-> ensure_extracted_requirement(requirements)]
        /\ UNCHANGED <<products, rfq, collab, proposals, matches, prevMatches,
                       status, handler, calls>>

SpecEnsure == InitScore /\ [][EnsureRequirement]_vars

(* C15: ensure_extracted_requirement never raises and returns an           *)
(* ExtractedRequirement: the same object for an ExtractedRequirement, the  *)
(* converted object for a dict that validates, and otherwise the default   *)
(* requirement titled "Default AI Hardware Requirements" with categories   *)
(* GPU and AI Accelerator.                                                 *)
C15_EnsureNeverRaises ==
    call.fn = "ensure_extracted_requirement" =>
        /\ ~call.ret.raised
        /\ call.ret.value.kind = "object"
        /\ call.args[1].kind = "object" => call.ret.value = call.args[1]
        /\ (call.args[1].kind = "dict" /\ call.args[1].hasTitle
                /\ call.args[1].hasCategories /\ call.args[1].wellTyped) =>
               /\ call.ret.value.ref = NewRef
               /\ call.ret.value.title = call.args[1].title
               /\ call.ret.value.categories = call.args[1].categories
        /\ (\/ call.args[1].kind = "other"
            \/ /\ call.args[1].kind = "dict"
               /\ ~(call.args[1].hasTitle /\ call.args[1].hasCategories
                      /\ call.args[1].wellTyped)) =>
               /\ call.ret.value.title = "Default AI Hardware Requirements"
               /\ call.ret.value.categories = <<"GPU", "AI Accelerator">>

C15_Witness ==
    /\ call.fn = "ensure_extracted_requirement"
    /\ call.args[1].kind = "dict"
    /\ ~call.args[1].hasTitle
    /\ call.args[1].categories = <<"GPU">>
    /\ ~call.ret.raised
    /\ call.ret.value = DefaultRequirement

(***************************************************************************)
(* parse_delivery_time called on its own.  The delivery times are the      *)
(* texts a supplier record carries: "<n> <unit>", "<min>-<max> <unit>",    *)
(* texts without a digit, the empty string and None.                       *)
(***************************************************************************)
DigitChar(d) ==
    CASE d = 0 -> "0" [] d = 1 -> "1" [] d = 2 -> "2" [] d = 3 -> "3"
      [] d = 4 -> "4" [] d = 5 -> "5" [] d = 6 -> "6" [] d = 7 -> "7"
      [] d = 8 -> "8" [] d = 9 -> "9"

(* str() of a natural number *)
RECURSIVE ToStr(_)
ToStr(n) ==
    IF n < 10 THEN <<DigitChar(n)>>
    ELSE ToStr(n \div 10) \o <<DigitChar(n % 10)>>

DayCounts == {1, 2, 3, 4, 5, 10, 15}

DaysUnit == <<" ", "d", "a", "y", "s">>

WeeksUnit == <<" ", "w", "e", "e", "k", "s">>

SingleText(n, unit) == ToStr(n) \o unit

RangeText(lo, hi, unit) == ToStr(lo) \o <<"-">> \o ToStr(hi) \o unit

Immediate == <<"i", "m", "m", "e", "d", "i", "a", "t", "e">>

(* kind "None" is the value None, whose text is not looked at *)
DeliveryTimes ==
    { [kind |-> "str", text |-> SingleText(n, u)] : n \in DayCounts, u \in {DaysUnit, WeeksUnit} }
    \cup { [kind |-> "str", text |-> RangeText(lo, hi, u)] :
               lo \in DayCounts, hi \in DayCounts, u \in {DaysUnit, WeeksUnit} }
    \cup { [kind |-> "str", text |-> Immediate], [kind |-> "str", text |-> <<>>],
           [kind |-> "None", text |-> <<>>] }

(* `not delivery_time` holds of None as it does of the empty string *)
ParseDeliveryTime ==
    \E delivery_time \in DeliveryTimes :
        /\ call = NoCall
        /\ call' = [fn   |-> "parse_delivery_time",
                    args |-> <<delivery_time>>,
                    ret  |-> [raised |-> FALSE,
                              value  |-> parse_delivery_time(
                                             IF delivery_time.kind = "None"
                                             THEN <<>> ELSE delivery_time.text)]]
        /\ UNCHANGED <<products, rfq, collab, proposals, matches, prevMatches,
                       status, handler, calls>>

SpecDelivery == InitScore /\ [][ParseDeliveryTime]_vars

ParsedText(text) ==
    /\ call.fn = "parse_delivery_time"
    /\ call.args[1].kind = "str"
    /\ call.args[1].text = text

(* C16: parse_delivery_time is total: "<min>-<max> days" gives the mean    *)
(* (min + max) / 2, "<n> days" gives n, and None, the empty string and a   *)
(* text without a digit give 30.0 (values in half days: min + max, 2n, 60) *)
C16_ParseDeliveryTimeDays ==
    call.fn = "parse_delivery_time" =>
        /\ ~call.ret.raised
        /\ \A lo \in DayCounts, hi \in DayCounts :
               /\ ParsedText(RangeText(lo, hi, DaysUnit)) => call.ret.value = lo + hi
               /\ ParsedText(SingleText(lo, DaysUnit)) => call.ret.value = 2 * lo
        /\ (\/ call.args[1].kind = "None"
            \/ ParsedText(<<>>)
            \/ ParsedText(Immediate)) => call.ret.value = 60

C16_Witness ==
    /\ ParsedText(RangeText(10, 15, DaysUnit))
    /\ call.ret.value = 25

(* C17: a delivery time in weeks is converted to days: "<n> weeks" gives   *)
(* 7n and "<min>-<max> weeks" gives 7 (min + max) / 2 (in half days: 14n   *)
(* and 7 (min + max))                                                      *)
C17_WeeksConvertedToDays ==
    \A lo \in DayCounts, hi \in DayCounts :
        /\ ParsedText(SingleText(lo, WeeksUnit)) => call.ret.value = 14 * lo
        /\ ParsedText(RangeText(lo, hi, WeeksUnit)) => call.ret.value = 7 * (lo + hi)

(***************************************************************************)
(* calculate_match_score of supplier_matching.py on the laptop of the      *)
(* seeded catalogue (Dell Latitude 5420: 999, "Intel Core i5-1135G7",      *)
(* "16GB DDR4"), carrying any of the further specification keys and        *)
(* warranties of the seeded products, from the supplier that delivers in   *)
(* "10-15 days".                                                           *)
(***************************************************************************)
ScenarioLaptop ==
    [BaseRow EXCEPT !.category = "Laptops", !.price = 999,
        !.specKeys = {"processor", "memory"},
        !.processor = <<"I", "n", "t", "e", "l", " ", "C", "o", "r", "e", " ",
                        "i", "5", "-", "1", "1", "3", "5", "G", "7">>,
        !.memory = <<"1", "6", "G", "B", " ", "D", "D", "R", "4">>,
        !.storage = <<"5", "1", "2", "G", "B", " ", "S", "S", "D">>,
        !.display = <<"1", "4", "-", "i", "n", "c", "h", " ", "F", "H", "D">>]

ScenarioCandidates ==
    { [ScenarioLaptop EXCEPT !.specKeys = @ \cup extra, !.warranty = w] :
        extra \in SUBSET {"os", "storage", "display"},
        w \in { <<>>, <<"3", " ", "y", "e", "a", "r", "s">>,
                <<"1", " ", "y", "e", "a", "r", " ", "o", "n", "s", "i", "t", "e">> } }

ScenarioCriteria ==
    SmCriteriaPool
    \cup { [NoCriteria EXCEPT !.price = 50, !.quality = 30, !.delivery = 20],
           [NoCriteria EXCEPT !.price = 30, !.quality = 40, !.delivery = 30] }

SmScenarioScore ==
    \E product \in ScenarioCandidates, cr \in ScenarioCriteria :
        /\ call = NoCall
        /\ call' = [fn   |-> "sm_scenario_score",
                    args |-> <<product, cr, get_supplier_by_id(1).deliveryTime>>,
                    ret  |-> sm_calculate_match_score(
                                 product, get_supplier_by_id(1),
                                 ScoreRequirements(cr), "Laptops")]
        /\ UNCHANGED <<products, rfq, collab, proposals, matches, prevMatches,
                       status, handler, calls>>

SpecScenario == InitScore /\ [][SmScenarioScore]_vars

(* C18: for the requirement {Laptops, processor "Intel Core i5", memory    *)
(* "16GB DDR4", weights 50/30/20} and a candidate priced 999 with          *)
(* processor "Intel Core i5-1135G7", memory "16GB DDR4" and delivery time  *)
(* "10-15 days", the quality sub-score is at least 80 and the delivery     *)
(* sub-score at least 70, whatever other specification fields and warranty *)
(* the candidate carries.                                                  *)
C18_ScenarioSubScores ==
    (/\ call.fn = "sm_scenario_score"
     /\ call.args[2].price = 50 /\ call.args[2].quality = 30
     /\ call.args[2].delivery = 20
     /\ call.args[3] = RangeText(10, 15, DaysUnit)) =>
        /\ call.ret.details.quality >= 80 * SmDetailDen
        /\ call.ret.details.delivery >= 70 * SmDetailDen

(***************************************************************************)
(* find_alternative_products called on its own: the reference product is   *)
(* a row of a catalogue of MaxAlternativeRows rows, all_products is the     *)
(* catalogue and supplier_matches are the ranked matches of its GPU and    *)
(* TPU rows for a buyer in the United States.                              *)
(***************************************************************************)
MaxAlternativeRows == 5

AlternativeCatalogues ==
    { [i \in 1..MaxAlternativeRows |-> [f[i] EXCEPT !.id = i]] :
        f \in [1..MaxAlternativeRows -> AiRowPool] }

AlternativeMatches(rows) ==
    sort_by_match_score(
        aihw_all_matches(rows, ScoreRequirements(NoCriteria), "United States",
                         <<"GPU", "TPU">>))

FindAlternatives ==
    \E rows \in AlternativeCatalogues, i \in 1..MaxAlternativeRows :
        /\ call = NoCall
        /\ call' = [fn   |-> "find_alternative_products",
                    args |-> <<rows[i], rows>>,
                    ret  |-> find_alternative_products(
                                 rows[i], rows, AlternativeMatches(rows))]
        /\ UNCHANGED <<products, rfq, collab, proposals, matches, prevMatches,
                       status, handler, calls>>

SpecAlternatives == InitScore /\ [][FindAlternatives]_vars

AlternativeLists(alternatives) ==
    { alternatives.similarPerformance, alternatives.lowerCost,
      alternatives.fasterDelivery, alternatives.betterCompliance }

(* C19: each of the four alternatives lists returned by                    *)
(* find_alternative_products has at most 3 entries and never contains the  *)
(* id of the reference product.                                            *)
C19_AlternativesCappedWithoutSelf ==
    call.fn = "find_alternative_products" =>
        \A list \in AlternativeLists(call.ret) :
            /\ Len(list) <= 3
            /\ \A n \in 1..Len(list) : list[n] # call.args[1].id

(* four siblings qualify as similar in performance and three are listed *)
C19_Witness ==
    /\ call.fn = "find_alternative_products"
    /\ \A n \in 1..Len(call.args[2]) :
           /\ call.args[2][n].category = call.args[1].category
           /\ call.args[2][n].fp32 = call.args[1].fp32
    /\ Len(call.args[2]) >= 5
    /\ Len(call.ret.similarPerformance) = 3

SiblingsOf(m) ==
    get_products_by_category(products, products[m.product].category)

SiblingAlternatives(m) ==
    find_alternative_products(products[m.product], SiblingsOf(m), matches)

(* C20: for each of the top 5 matches of an RFQ the alternatives are drawn *)
(* from exactly the sibling candidates of the match's own category: every  *)
(* id in any of its four lists is a product of the category of the match,  *)
(* and the siblings of a match of any category of the RFQ, not only of the *)
(* last one processed, are scanned.                                        *)
C20_AlternativesFromOwnCategory ==
    (handler = "aihw" /\ Returned) =>
        \A i \in 1..Min2(5, Len(matches)) :
            /\ \A list \in AlternativeLists(matches[i].alternatives) :
                   \A n \in 1..Len(list) :
                       products[list[n]].category
                           = products[matches[i].product].category
            /\ matches[i].alternatives.similarPerformance
                   = SiblingAlternatives(matches[i]).similarPerformance
            /\ matches[i].alternatives.lowerCost
                   = SiblingAlternatives(matches[i]).lowerCost

(***************************************************************************)
(* find_alternative_products on catalogues whose prices sit on and around  *)
(* the 10% saving of the lowerCost list (720 against 800) and whose FP32   *)
(* performance sits on and below 70% of the reference (21 and 20 of 30).   *)
(***************************************************************************)
LowerCostRowPool ==
    { [BaseRow EXCEPT !.price = pf[1], !.fp32 = pf[2], !.memCap = 16, !.tdp = 250] :
          pf \in { <<800, 30>>, <<720, 30>>, <<720, 21>>, <<720, 20>>, <<500, 21>> } }
    \cup { [BaseRow EXCEPT !.category = "TPU", !.price = 500, !.fp32 = 60,
                           !.memCap = 80, !.tdp = 400, !.supplierId = 2] }

FindLowerCost ==
    \E rows \in Catalogues(LowerCostRowPool), i \in 1..MaxProducts :
        /\ call = NoCall
        /\ call' = [fn   |-> "find_alternative_products",
                    args |-> <<rows[i], rows>>,
                    ret  |-> find_alternative_products(
                                 rows[i], rows, AlternativeMatches(rows))]
        /\ UNCHANGED <<products, rfq, collab, proposals, matches, prevMatches,
                       status, handler, calls>>

SpecLowerCost == InitScore /\ [][FindLowerCost]_vars

(* the candidates of all_products that qualify as lower-cost alternatives  *)
(* of the reference product: same category, another id, price at most 90%  *)
(* of the reference price, FP32 at least 70% of the reference's            *)
LowerCostQualified(product, all_products) ==
    { n \in 1..Len(all_products) :
        /\ all_products[n].category = product.category
        /\ all_products[n].id # product.id
        /\ 10 * all_products[n].price <= 9 * product.price
        /\ 10 * GetOr0(all_products[n].fp32) >= 7 * GetOr0(product.fp32) }

PriceOfId(all_products, id) ==
    (CHOOSE row \in {all_products[n] : n \in 1..Len(all_products)} : row.id = id).price

(* C21: lowerCost lists exactly the same-category candidates, up to 3,     *)
(* priced at least 10% below the reference (0.9 times its price included)  *)
(* with at least 70% of its FP32 performance, largest saving first.        *)
C21_LowerCostList ==
    call.fn = "find_alternative_products" =>
        LET product == call.args[1]
            rows    == call.args[2]
            list    == call.ret.lowerCost
            listed  == {list[n] : n \in 1..Len(list)}
            qual    == {rows[n].id : n \in LowerCostQualified(product, rows)}
        IN  /\ listed \subseteq qual
            /\ Len(list) = Min2(3, Cardinality(qual))
            /\ \A n \in 1..Len(list) - 1 :
                   PriceOfId(rows, list[n]) <= PriceOfId(rows, list[n + 1])
            /\ \A id \in qual \ listed : \A n \in 1..Len(list) :
                   PriceOfId(rows, list[n]) <= PriceOfId(rows, id)

(***************************************************************************)
(* calculate_price_score of both services on a candidate that is the only  *)
(* product of its category in the catalogue                                *)
(***************************************************************************)
SolePriceScore ==
    \E a \in 1..Len(products), scorer \in {"percentile", "range"} :
        /\ call = NoCall
        /\ \A b \in 1..Len(products) :
               b # a => products[b].category # products[a].category
        /\ call' = [fn   |-> "calculate_price_score_sole",
                    args |-> <<scorer, a>>,
                    ret  |-> PriceScoreBy(scorer, products[a], products,
                                          rfq.requirements.criteria)]
        /\ UNCHANGED <<products, rfq, collab, proposals, matches, prevMatches,
                       status, handler, calls>>

SpecSolePrice == InitPrice /\ [][SolePriceScore]_vars

(* C22: a candidate that is the only product of its category gets a fixed  *)
(* neutral price score between 75 and 80 from calculate_price_score, for   *)
(* every price weight.                                                     *)
C22_SoleCandidateNeutralPrice ==
    call.fn = "calculate_price_score_sole" =>
        /\ 75 * call.ret.den <= call.ret.num
        /\ call.ret.num <= 80 * call.ret.den

(***************************************************************************)
(* The delivery sub-score of both calculate_match_score, for suppliers     *)
(* with and without a lead time and with an empty (or absent), digit-free  *)
(* or numeric delivery time, and products in and out of stock              *)
(***************************************************************************)
DeliverySuppliers ==
    { [empty |-> FALSE, id |-> 1, country |-> "United States",
       leadTime |-> lt, deliveryTime |-> dt] :
        lt \in {0, 30},
        dt \in { <<>>, Immediate, SingleText(30, DaysUnit),
                 RangeText(10, 15, DaysUnit) } }

DeliveryScoreBy(scorer, product, supplier, cr) ==
    IF scorer = "sm"
    THEN [raised |-> FALSE,
          delivery |-> sm_calculate_match_score(
                           product, supplier, ScoreRequirements(cr),
                           "Laptops").details.delivery * 10]
    ELSE LET r == aihw_calculate_match_score(
                      product, supplier, ScoreRequirements(cr), "United States")
         IN  [raised |-> r.raised,
              delivery |-> IF r.raised THEN NoVal
                           ELSE r.details.availability * SmDetailDen]

DeliveryScore ==
    \E scorer \in {"sm", "aihw"}, in_stock \in BOOLEAN,
       supplier \in DeliverySuppliers,
       cr \in ScenarioCriteria \ {c \in ScenarioCriteria : c.price = 0} :
        /\ call = NoCall
        /\ call' = [fn   |-> "delivery_score",
                    args |-> <<scorer, in_stock, supplier, cr>>,
                    ret  |-> DeliveryScoreBy(
                                 scorer,
                                 [(IF scorer = "sm" THEN ScenarioLaptop
                                   ELSE [BaseRow EXCEPT !.memCap = 16,
                                                        !.fp32 = 30, !.tdp = 250])
                                     EXCEPT !.inStock = in_stock],
                                 supplier, cr)]
        /\ UNCHANGED <<products, rfq, collab, proposals, matches, prevMatches,
                       status, handler, calls>>

SpecDeliveryScore == InitScore /\ [][DeliveryScore]_vars

(* the supplier of the call has no usable delivery information *)
NoDeliveryInformation ==
    /\ call.fn = "delivery_score"
    /\ call.args[3].leadTime = 0
    /\ call.args[3].deliveryTime \in {<<>>, Immediate}

(* the call scores as some call with the same scorer, stock and criteria   *)
(* and a 30-day supplier does                                              *)
ThirtyDayScore ==
    DeliveryScoreBy(call.args[1],
                    [(IF call.args[1] = "sm" THEN ScenarioLaptop
                      ELSE [BaseRow EXCEPT !.memCap = 16, !.fp32 = 30, !.tdp = 250])
                        EXCEPT !.inStock = call.args[2]],
                    [call.args[3] EXCEPT !.leadTime = 30,
                                         !.deliveryTime = SingleText(30, DaysUnit)],
                    call.args[4])

(* C23: a candidate whose delivery information is missing or unparseable   *)
(* never makes scoring raise and gets exactly the delivery or availability *)
(* sub-score of a 30-day lead time, in both scorers, in stock or not.      *)
C23_MissingDeliveryIsThirtyDays ==
    NoDeliveryInformation =>
        /\ ~call.ret.raised
        /\ call.ret.delivery = ThirtyDayScore.delivery

(***************************************************************************)
(* The spec comparators called on their own.  The laptop comparators take  *)
(* two texts (<<>> for None or ""), the AI-hardware comparators the        *)
(* requirement block and the product dict.  The result is in percent, as   *)
(* num / den.                                                              *)
(***************************************************************************)
LaptopComparators ==
    {"compare_processors", "compare_memory", "compare_storage",
     "compare_display", "compare_warranty"}

AiComparators ==
    {"compare_compute_performance", "compare_memory_specs",
     "compare_power_specs", "compare_framework_support"}

ComparatorTexts(comparator) ==
    CASE comparator = "compare_processors" ->
             { <<>>, <<"I", "n", "t", "e", "l", " ", "C", "o", "r", "e", " ", "i", "5">>,
               <<"I", "n", "t", "e", "l", " ", "C", "o", "r", "e", " ", "i", "7">>,
               <<"I", "n", "t", "e", "l", " ", "C", "o", "r", "e", " ", "i", "5",
                 "-", "1", "1", "3", "5", "G", "7">>,
               <<"A", "M", "D", " ", "R", "y", "z", "e", "n", " ", "7">>,
               <<"A", "M", "D", " ", "R", "y", "z", "e", "n", " ", "5">> }
      [] comparator = "compare_memory" ->
             { <<>>, <<"8", "G", "B">>, <<"1", "6", "G", "B", " ", "D", "D", "R", "4">>,
               <<"3", "2", "G", "B", " ", "D", "D", "R", "5">>, <<"D", "D", "R", "4">> }
      [] comparator = "compare_storage" ->
             { <<>>, <<"5", "1", "2", "G", "B", " ", "S", "S", "D">>,
               <<"1", "T", "B", " ", "N", "V", "M", "e">>,
               <<"2", "5", "6", "G", "B", " ", "H", "D", "D">>, <<"S", "S", "D">> }
      [] comparator = "compare_display" ->
             { <<>>, <<"1", "4", "-", "i", "n", "c", "h", " ", "F", "H", "D">>,
               <<"1", "5", " ", "i", "n", "c", "h", " ", "4", "K">>,
               <<"1", "7", " ", "i", "n", "c", "h", " ", "H", "D">> }
      [] OTHER ->
             { <<>>, <<"3", " ", "y", "e", "a", "r", "s">>,
               <<"1", " ", "y", "e", "a", "r", " ", "o", "n", "s", "i", "t", "e">>,
               <<"n", "e", "x", "t", " ", "d", "a", "y">> }

ComparatorRequirements ==
    { NoHw } \cup
    { [empty |-> FALSE, quantity |-> 1, minComputePower |-> cp,
       minTensorCores |-> tc, minMemory |-> mm, powerConstraints |-> pc,
       hasFrameworks |-> fw # {}, frameworks |-> fw] :
        cp \in {NoVal, 20}, tc \in {NoVal, 100}, mm \in {NoVal, 24},
        pc \in {NoVal, 300}, fw \in {{}, {"tensorflow", "pytorch"}} }

ComparatorProducts(comparator) ==
    CASE comparator = "compare_compute_performance" ->
             { [BaseRow EXCEPT !.fp32 = f, !.tensorCores = t] :
                 f \in {NoVal, 10, 14, 18, 20, 30}, t \in {NoVal, 40, 80, 100} }
      [] comparator = "compare_memory_specs" ->
             { [BaseRow EXCEPT !.memCap = m] : m \in {NoVal, 12, 16, 20, 24, 36} }
      [] comparator = "compare_power_specs" ->
             { [BaseRow EXCEPT !.tdp = t] : t \in {NoVal, 200, 300, 320, 350, 400} }
      [] OTHER ->
             { [BaseRow EXCEPT !.supportedFrameworks = fw] :
                 fw \in {{}, {"tensorflow"}, {"tensorflow", "pytorch"}} }
                 \cup { [BaseRow EXCEPT !.empty = TRUE] }

CompareTexts(comparator, requirement, spec) ==
    CASE comparator = "compare_processors" -> compare_processors(requirement, spec)
      [] comparator = "compare_memory" -> compare_memory(requirement, spec)
      [] comparator = "compare_storage" -> compare_storage(requirement, spec)
      [] comparator = "compare_display" -> compare_display(requirement, spec)
      [] OTHER -> compare_warranty(requirement, spec)

CompareSpecs(comparator, required, product) ==
    CASE comparator = "compare_compute_performance" ->
             compare_compute_performance_ratio(required, product)
      [] comparator = "compare_memory_specs" ->
             [num |-> compare_memory_specs(required, product), den |-> 1]
      [] comparator = "compare_power_specs" ->
             [num |-> compare_power_specs(required, product), den |-> 1]
      [] OTHER ->
             [num |-> compare_framework_support(required, product), den |-> 1]

CompareLaptop ==
    \E comparator \in LaptopComparators :
        \E requirement \in ComparatorTexts(comparator),
           spec \in ComparatorTexts(comparator) :
            /\ call = NoCall
            /\ call' = [fn   |-> comparator,
                        args |-> <<requirement, spec>>,
                        ret  |-> [num |-> CompareTexts(comparator, requirement, spec),
                                  den |-> 1]]
            /\ UNCHANGED <<products, rfq, collab, proposals, matches,
                           prevMatches, status, handler, calls>>

CompareAiHardware ==
    \E comparator \in AiComparators :
        \E required \in ComparatorRequirements,
           product \in ComparatorProducts(comparator) :
            /\ call = NoCall
            /\ call' = [fn   |-> comparator,
                        args |-> <<required, product>>,
                        ret  |-> CompareSpecs(comparator, required, product)]
            /\ UNCHANGED <<products, rfq, collab, proposals, matches,
                           prevMatches, status, handler, calls>>

NextComparators == CompareLaptop \/ CompareAiHardware

SpecComparators == InitScore /\ [][NextComparators]_vars

(* the required field or the product field the comparator reads is missing *)
(* or empty                                                                *)
ComparedFieldMissing ==
    CASE call.fn \in LaptopComparators ->
             call.args[1] = <<>> \/ call.args[2] = <<>>
      [] call.fn = "compare_compute_performance" ->
             \/ call.args[1].empty \/ call.args[2].empty
             \/ /\ (call.args[1].minComputePower = NoVal
                       \/ call.args[2].fp32 = NoVal)
                /\ (call.args[1].minTensorCores = NoVal
                       \/ call.args[2].tensorCores = NoVal)
      [] call.fn = "compare_memory_specs" ->
             \/ call.args[1].empty \/ call.args[2].empty
             \/ call.args[1].minMemory = NoVal \/ call.args[2].memCap = NoVal
      [] call.fn = "compare_power_specs" ->
             \/ call.args[1].empty \/ call.args[2].empty
             \/ call.args[1].powerConstraints = NoVal \/ call.args[2].tdp = NoVal
      [] call.fn = "compare_framework_support" ->
             \/ call.args[1].empty \/ call.args[2].empty
             \/ call.args[1].frameworks = {}
             \/ call.args[2].supportedFrameworks = {}
      [] OTHER -> FALSE

StorageSizeGb(text) ==
    IF SearchNumberWsLit(Lower(text), {<<"t", "b">>}) # NoVal
    THEN 1024 * SearchNumberWsLit(Lower(text), {<<"t", "b">>})
    ELSE SearchNumberWsLit(Lower(text), {<<"g", "b">>})

(* both sides carry the number read by extract and the product's is at     *)
(* least the required one                                                  *)
AtLeastRequired(extract(_)) ==
    /\ call.args[1] # <<>> /\ call.args[2] # <<>>
    /\ extract(call.args[1]) # NoVal
    /\ extract(call.args[2]) >= extract(call.args[1])

MemoryGb(text) == SearchNumberWsLit(Lower(text), {<<"g", "b">>})

FamilyNumber(text) == search_i_series(Lower(text))

WarrantyYears(text) ==
    SearchNumberWsLit(Lower(text), {<<"y", "e", "a", "r">>, <<"y", "r">>})

ProductMeetsRequirement ==
    CASE call.fn = "compare_memory" -> AtLeastRequired(MemoryGb)
      [] call.fn = "compare_storage" -> AtLeastRequired(StorageSizeGb)
      [] call.fn = "compare_processors" -> AtLeastRequired(FamilyNumber)
      [] call.fn = "compare_warranty" -> AtLeastRequired(WarrantyYears)
      [] call.fn = "compare_compute_performance" ->
             /\ ~call.args[1].empty /\ ~call.args[2].empty
             /\ call.args[1].minComputePower # NoVal
             /\ call.args[2].fp32 >= call.args[1].minComputePower
             /\ (call.args[1].minTensorCores = NoVal
                   \/ call.args[2].tensorCores >= call.args[1].minTensorCores)
      [] call.fn = "compare_memory_specs" ->
             /\ ~call.args[1].empty /\ ~call.args[2].empty
             /\ call.args[1].minMemory # NoVal
             /\ call.args[2].memCap >= call.args[1].minMemory
      [] call.fn = "compare_power_specs" ->
             /\ ~call.args[1].empty /\ ~call.args[2].empty
             /\ call.args[1].powerConstraints # NoVal
             /\ call.args[2].tdp # NoVal
             /\ call.args[2].tdp <= call.args[1].powerConstraints
      [] OTHER -> FALSE

(* C25: every comparator returns 1.0 when the product field matches or     *)
(* exceeds the required field: memory or storage size, processor family    *)
(* number and warranty years at least the required ones, FP32 throughput   *)
(* at least minComputePower, memory capacity at least minMemory, TDP at    *)
(* most powerConstraints.                                                  *)
C25_MeetingRequirementScoresOne ==
    ProductMeetsRequirement => call.ret.num = 100 * call.ret.den

(* the supplier of the call sits in the buyer's country and nothing        *)
(* restricts the buyer: the product does not list the country, no          *)
(* geopolitical rule names the pair and the country is in none of the      *)
(* restricted-country sets                                                 *)
DomesticUnrestricted ==
    /\ call.fn = "check_compliance_match"
    /\ call.args[1] # ""
    /\ ~call.args[2].empty
    /\ ~call.args[3].empty
    /\ call.args[3].country = call.args[1]
    /\ call.args[1] \notin call.args[2].restrictedCountries
    /\ call.args[1] \notin {"Russia", "China", "Iran"}
    /\ call.args[1] \notin SensitiveCountries \cup HighPerfBlockedCountries
                               \cup HighMemoryCountries

(* C26: check_compliance_match returns the maximum score 1.0 whenever the  *)
(* supplier country equals the buyer country and neither the product, a    *)
(* geopolitical rule nor a restricted-country set restricts the buyer,     *)
(* also for products above the sensitivity thresholds.                     *)
C26_DomesticSupplierScoresMax ==
    DomesticUnrestricted => call.ret.score = 100

(***************************************************************************)
(* The award criteria of extract_requirements_from_rfq.  A weight is the   *)
(* integer read after the criterion's name in the RFQ text, NoVal when the *)
(* text gives none.  int((w / total) * 100) is the floor of 100 w / total  *)
(* (up to the rounding of the float product, which stays within 0..100).   *)
(***************************************************************************)
normalize_weights(price_weight, quality_weight, delivery_weight) ==
    LET total_weight == price_weight + quality_weight + delivery_weight
    IN  IF total_weight = 100
        THEN [raised |-> FALSE, price |-> price_weight,
              quality |-> quality_weight, delivery |-> delivery_weight]
        ELSE IF total_weight = 0
        THEN [raised |-> TRUE, price |-> NoVal, quality |-> NoVal,
              delivery |-> NoVal]
        ELSE [raised   |-> FALSE,
              price    |-> (100 * price_weight) \div total_weight,
              quality  |-> (100 * quality_weight) \div total_weight,
              delivery |-> 100 - (100 * price_weight) \div total_weight
                               - (100 * quality_weight) \div total_weight]

extract_criteria(price_match, quality_match, delivery_match) ==
    normalize_weights(WeightOr(price_match, 50), WeightOr(quality_match, 30),
                      WeightOr(delivery_match, 20))

TextWeights == {NoVal, 0, 20, 33, 50, 100, 250}

ExtractRequirements ==
    \E price_match \in TextWeights, quality_match \in TextWeights,
       delivery_match \in TextWeights :
        /\ call = NoCall
        /\ call' = [fn   |-> "extract_requirements_from_rfq",
                    args |-> <<price_match, quality_match, delivery_match>>,
                    ret  |-> extract_criteria(price_match, quality_match,
                                              delivery_match)]
        /\ UNCHANGED <<products, rfq, collab, proposals, matches, prevMatches,
                       status, handler, calls>>

SpecExtract == InitScore /\ [][ExtractRequirements]_vars

(* C27: for every triple of price, quality and delivery weights read from  *)
(* the RFQ text, all zero and values above 100 included,                   *)
(* extract_requirements_from_rfq completes and the criteria weights it     *)
(* returns are integers in 0..100 that sum to exactly 100.                 *)
C27_ExtractedWeightsSumTo100 ==
    call.fn = "extract_requirements_from_rfq" =>
        /\ ~call.ret.raised
        /\ call.ret.price \in 0..100
        /\ call.ret.quality \in 0..100
        /\ call.ret.delivery \in 0..100
        /\ call.ret.price + call.ret.quality + call.ret.delivery = 100

(***************************************************************************)
(* The laptop/monitor service with a vector service whose answers are      *)
(* hits, unfiltered results or hits of which the second is malformed       *)
(***************************************************************************)
InitSemantic ==
    /\ handler = "sm"
    /\ products \in Catalogues(SmRowPool)
    /\ rfq \in SmRfqs
    /\ collab \in { [failCategory |-> "", semantic |-> sem] :
                      sem \in {"hits", "unfiltered", "malformed_second"} }
    /\ proposals = <<>>
    /\ matches = <<>>
    /\ prevMatches = <<>>
    /\ status = "idle"
    /\ calls = 0
    /\ call = NoCall

SpecSemantic == InitSemantic /\ [][SmMatch]_vars

(* C28: in the list returned by match_suppliers_for_rfq each product id    *)
(* appears at most once, and a run records at most one proposal per        *)
(* product, also when the semantic path fails after some results of a      *)
(* category were appended and when the semantic service returns the same   *)
(* product for two categories.                                             *)
C28_ProductsMatchedOnce ==
    (handler = "sm" /\ Returned) =>
        /\ \A i \in 1..Len(matches), j \in 1..Len(matches) :
               i # j => matches[i].product # matches[j].product
        /\ calls = 1 =>
               \A i \in 1..Len(proposals), j \in 1..Len(proposals) :
                   i # j => proposals[i].productId # proposals[j].productId


RECURSIVE Gcd(_, _)
Gcd(a, b) ==
    IF b = 0 THEN a ELSE Gcd(b, a % b)

(* a <= b for two fractions with positive denominators *)
RatioLeq(a, b) ==
    a.num * (b.den \div Gcd(a.den, b.den)) <= b.num * (a.den \div Gcd(a.den, b.den))

(* C29: compare_compute_performance never decreases when the product's     *)
(* fp32Performance is raised with the requirement and every other product  *)
(* metric fixed; a product at 60-80% of minComputePower never scores       *)
(* higher than one at 80-100%.                                             *)
C29_ComputeScoreMonotoneInFp32 ==
    (call.fn = "compare_compute_performance" /\ call.args[2].fp32 # NoVal) =>
        \A faster \in ComparatorProducts("compare_compute_performance") :
            (faster.fp32 # NoVal /\ faster.fp32 > call.args[2].fp32
                /\ faster = [call.args[2] EXCEPT !.fp32 = faster.fp32]) =>
                RatioLeq(call.ret,
                         compare_compute_performance_ratio(call.args[1], faster))


(***************************************************************************)
(* The AI-hardware service on catalogues that hold a product without a     *)
(* supplier and a product whose tdp cannot be parsed                       *)
(***************************************************************************)
OmissionRowPool ==
    { [BaseRow EXCEPT !.memCap = 16, !.fp32 = 30, !.tdp = 250,
                      !.supportedFrameworks = {"tensorflow", "pytorch"}],
      [BaseRow EXCEPT !.category = "TPU", !.price = 12000, !.supplierId = 2,
                      !.memCap = 80, !.fp32 = 60, !.tdp = 400,
                      !.supportedFrameworks = {"tensorflow"}],
      [BaseRow EXCEPT !.price = 500, !.memCap = 16, !.fp32 = 30,
                      !.tdp = Unparseable],
      [BaseRow EXCEPT !.supplierId = 3, !.memCap = 48, !.fp32 = 40] }

InitOmission ==
    /\ handler = "aihw"
    /\ products \in Catalogues(OmissionRowPool)
    /\ rfq \in AiRfqs
    /\ collab = [failCategory |-> "", semantic |-> "raise"]
    /\ proposals = <<>>
    /\ matches = <<>>
    /\ prevMatches = <<>>
    /\ status = "idle"
    /\ calls = 0
    /\ call = NoCall

SpecOmission == InitOmission /\ [][AihwMatch]_vars

BuyerCountryOf(stored) ==
    IF stored.buyer = "" THEN "United States" ELSE stored.buyer

(* the score of a row under the stored RFQ *)
ScoreOfRow(row) ==
    aihw_calculate_match_score(row, get_supplier_by_id(row.supplierId),
                               rfq.requirements, BuyerCountryOf(rfq))

RowRequested(row) ==
    \E i \in 1..Len(aihw_categories(rfq.requirements)) :
        CategoryMatches(row, aihw_categories(rfq.requirements)[i])

RowOmitted(row) ==
    get_supplier_by_id(row.supplierId).empty \/ ScoreOfRow(row).raised

RowMatched(row) ==
    \E i \in 1..Len(matches) :
        /\ matches[i].product = row.id
        /\ matches[i].supplier = row.supplierId
        /\ matches[i].matchScore = ScoreOfRow(row).num
        /\ matches[i].den = ScoreOfRow(row).den
        /\ matches[i].matchDetails = ScoreOfRow(row).details

(* C30: in the AI-hardware match_suppliers_for_rfq a product whose         *)
(* supplier is missing or whose scoring raises is omitted from the result, *)
(* and every other product of every requested category that has a         *)
(* supplier and scores without error is present with its own match.       *)
C30_OmissionLeavesOthersUntouched ==
    (handler = "aihw" /\ Returned) =>
        \A n \in 1..Len(products) :
            /\ RowOmitted(products[n]) =>
                   \A i \in 1..Len(matches) : matches[i].product # products[n].id
            /\ (~RowOmitted(products[n]) /\ RowRequested(products[n])) =>
                   RowMatched(products[n])

C30_Witness ==
    /\ handler = "aihw"
    /\ Returned
    /\ rfq.requirements.shape = "dict"
    /\ \E a \in 1..Len(products), b \in 1..Len(products), c \in 1..Len(products) :
           /\ a < b
           /\ b < c
           /\ get_supplier_by_id(products[a].supplierId).empty
           /\ RowRequested(products[a])
           /\ products[b].tdp = Unparseable
           /\ ~get_supplier_by_id(products[b].supplierId).empty
           /\ ScoreOfRow(products[b]).raised
           /\ ~RowOmitted(products[c])
           /\ products[c].category = products[a].category
           /\ RowMatched(products[c])
           /\ Len(matches) = 1

====
